---- MODULE Spec2Model ----
(***************************************************************************)
(* Model of the client-side AI-orchestration layer of the physics study    *)
(* application: the credential resolver, the explanation fetch with its    *)
(* primary/fallback chain and cache (App.tsx + services/geminiService),    *)
(* the audio pipeline with its cache, and the best-effort / classified     *)
(* service calls (video recommendations, quiz, chat session).              *)
(*                                                                         *)
(* The remote model is an oracle: every awaited call is a request in       *)
(* flight whose completion is a separate step with a nondeterministic      *)
(* outcome.  Everything between two awaits runs atomically (single         *)
(* threaded event loop), including the microtask that delivers a           *)
(* rejection raised before the first await.                                *)
(***************************************************************************)
EXTENDS Integers, FiniteSets, Sequences, Bags, TLC

\* ---------------------------------------------------------------- bounds
NumQuestions == 2          \* question ids 1..NumQuestions
MaxInFlight  == 1          \* generateExplanation calls outstanding at once
MaxAudio     == 1          \* generateAudioExplanation calls outstanding at once
MaxFetches   == 2          \* force=false fetches per id in the counted runs
MaxOps       == 3          \* operations that go to the remote in the combined runs
MaxBytes     == 3          \* bytes in a decoded audio payload
MaxDecodes   == 2          \* processAudioData calls on one payload
MaxSources   == 3          \* buffer sources one AudioPlayer creates
MaxOverlap   == 2          \* calls of one kind outstanding in the overlap runs
MaxSends     == 2          \* sends one mounted chat panel is driven through

Ids  == 1..NumQuestions
NoId == 0                  \* selectedId === null

\* ------------------------------------------------------------ value sets
Null == "<null>"

\* response.text of a successful generateContent call ("" = empty text)
Texts == {"T1"}
ReplyTexts == Texts \cup {""}

\* inlineData.data of a speech response (base64 payloads)
Payloads == {"P1", "P2"}

\* `response.text || "Ошибка получения ответа."`
Placeholder == "Oshibka polucheniya otveta."

\* values saveApiKey is called with / localStorage may hold
KeyInputs == {"", "k"}
\* values typed into a key field, surrounding whitespace included
RawKeys == {"", "k", " k ", " "}
\* String.prototype.trim on those values
Trim(s) == CASE s = " k " -> "k"
             [] s = " "   -> ""
             [] OTHER     -> s
\* process.env.API_KEY at build time
EnvKeys == {"", "e"}

\* A failure is modelled by the set of signals that error.toString()
\* .toLowerCase() contains.
Signals == {"403", "permission denied", "access denied", "429", "quota"}
\* failures the remote call is made to produce in the orchestration runs
RemoteErrors == {{}, {"403"}}

\* user-facing messages (English renderings of the literals in the source)
MsgNoKeyExplain == "API Key missing. Enter it in settings."
MsgNoKey        == "API Key missing. Press the key icon to add it."
Msg403          == "Access error (403). Try updating the API key."
Msg429          == "Request limit exceeded. Wait a minute."
MsgConn         == "AI connection error. Check internet or VPN."
MsgNoKeyChat    == "API Key missing"
\* loadQuiz: new Error("Не удалось сгенерировать тест")
MsgQuizEmpty    == "Failed to generate the test"
\* playAudio: "Нужен API ключ" / "Ошибка загрузки"
MsgPlayerKey    == "API key needed"
MsgPlayerLoad   == "Loading error"
\* handleSend: "Ошибка соединения. Попробуй позже."
MsgChatError    == "Connection error. Try later."
\* handleSend: `result.text || "..."`
Ellipsis        == "..."

VARIABLES
    userKey,          \* localStorage['USER_GEMINI_KEY'] (Null = absent)
    envKey,           \* process.env.API_KEY
    selectedId,       \* App state
    activeTab,        \* App state
    isHeaderExpanded, \* App state
    cache,            \* App state: Record<number,string>
    explanation,      \* App state: ExplanationState
    chatSession,      \* App state: id the Chat was created for, or NoId
    explReqs,         \* bag of generateExplanation calls awaiting the remote
    audioCache,       \* geminiService: Map<number,string>
    audioReqs,        \* bag of generateAudioExplanation calls awaiting the remote
    shownFor,         \* history: id of the fetch that last set `explanation`
    lastOp,           \* history: the operation that produced this state
    nfFetches,        \* history: force=false fetches started, per id
    nfCalls,          \* history: remote calls issued for them, per id (2 = more)
    quizReqs,         \* bag of generateQuiz calls awaiting the remote
    videoReqs,        \* bag of getVideoRecommendations calls awaiting the remote
    videos,           \* VideoResources state: what setVideos was given
    videoLoading,     \* VideoResources state: loading
    quiz,             \* QuizInterface state: loading, error, questions
    completedIds,     \* App state: number[]
    bookmarkedIds,    \* App state: number[]
    storedCompleted,  \* localStorage['completed']
    storedBookmarked, \* localStorage['bookmarked']
    lastToggle,       \* history: the last toggle and the array it was given
    decoded,          \* AudioPlayer: the last processAudioData call
    player,           \* AudioPlayer: state, refs and the sources it started
    chat,             \* ChatInterface: messages, input, loading, sends awaited
    started           \* history: operations that went to the remote so far

credVars  == <<userKey, envKey>>
appVars   == <<selectedId, activeTab, isHeaderExpanded, cache, explanation,
               chatSession, explReqs, shownFor>>
audioVars == <<audioCache, audioReqs>>
progVars  == <<completedIds, bookmarkedIds, storedCompleted, storedBookmarked,
               lastToggle>>
localVars == <<quiz, progVars, decoded, player, chat>>
svcVars   == <<quizReqs, videoReqs, videos, videoLoading, localVars>>
histVars  == <<nfFetches, nfCalls, started>>

vars == <<credVars, appVars, audioVars, svcVars, lastOp, histVars>>

\* --------------------------------------------------------------- helpers
Truthy(s) == s # Null /\ s # ""

\* lastOp: op = the operation, id/force = its arguments, res = how it
\* ended, old = the cache entry it replaced, msg = the message of the
\* error it raised, ret = the value it returned, err = the signals of the
\* failure it classified
OpE(op, id, force, res, old, msg, ret, err) ==
    [op |-> op, id |-> id, force |-> force, res |-> res, old |-> old,
     msg |-> msg, ret |-> ret, err |-> err]

Op(op, id, force, res, old, msg, ret) ==
    OpE(op, id, force, res, old, msg, ret, {})

Req(id, force, stage) == [id |-> id, force |-> force, stage |-> stage]

\* the settled remote call: a reply carrying text, or a failure carrying
\* the signals of its error string
Reply(t)   == [ok |-> TRUE,  text |-> t,  err |-> {}]
Failure(e) == [ok |-> FALSE, text |-> "", err |-> e]

\* the loading state with the content on screen kept
Loading_keepContent ==
    [loading |-> TRUE, content |-> explanation.content, error |-> Null]

Loading    == [loading |-> TRUE,  content |-> Null, error |-> Null]
Content(t) == [loading |-> FALSE, content |-> t,    error |-> Null]
Failed(m)  == [loading |-> FALSE, content |-> Null, error |-> m]

\* JSON.stringify of an array of ids, as stored in localStorage
JSONStringify(ids) == [json |-> ids]

\* JSON.parse of a stored array of ids
JSONParseIds(text) == text.json

\* no toggle has happened yet (before = the array the toggle was given,
\* again = the operation before it was the same toggle, first = the array
\* that one was given)
NoToggle == [set |-> "none", id |-> NoId, before |-> <<>>, again |-> FALSE,
             first |-> <<>>]

\* QuizInterface as mounted (selectedOption: NoOption = null; checked =
\* history, the handleCheck calls that took effect since the last load)
NoOption == 0 - 1
NoQuiz == [loading |-> FALSE, error |-> Null, questions |-> "[]",
           currentIndex |-> 0, selectedOption |-> NoOption,
           isAnswered |-> FALSE, score |-> 0, showResults |-> FALSE,
           checked |-> 0]

\* AudioPlayer as mounted: nothing playing, no source, no decoded buffer.
\* A source is [n |-> the order it was created in, id |-> the question its
\* audio was generated for]; active = sources that sound, ending = stopped
\* sources whose ended event has not been delivered, awaiting = the
\* question of the playAudio call waiting for generateAudioExplanation.
NoSource == [n |-> 0, id |-> NoId]
NoPlayer == [isPlaying |-> FALSE, loading |-> FALSE, error |-> Null,
             sourceNodeRef |-> NoSource, audioBufferRef |-> NoId,
             active |-> {}, ending |-> {}, created |-> 0, awaiting |-> NoId]

\* ChatInterface as mounted: the greeting alone, empty input. for = the
\* session the component was last rendered with, sends = replies awaited.
Greeting == [role |-> "model", text |-> "greeting"]
\* ChatInterface as mounted (awaiting = handleSend is at its await)
NoChat == [messages |-> <<Greeting>>, input |-> "", loading |-> FALSE,
           awaiting |-> FALSE]

\* processAudioData has not been called (input = the base64 payload,
\* first = the samples of the first call on it)
NoDecode == [input |-> <<>>, calls |-> 0, bytes |-> <<>>, raised |-> FALSE,
             samples |-> <<>>, first |-> <<>>, channels |-> 0,
             sampleRate |-> 0]

\* ---------------------------------------------------- credential resolver
\* the resolver with the build-time default preferred
getStoredApiKey_envFirst == IF Truthy(envKey) THEN envKey
                            ELSE IF Truthy(userKey) THEN userKey ELSE ""

\* localStorage.getItem('USER_GEMINI_KEY') || process.env.API_KEY || ''
getStoredApiKey == IF Truthy(userKey) THEN userKey
                   ELSE IF Truthy(envKey) THEN envKey ELSE ""

HasKey == getStoredApiKey # ""

\* localStorage.setItem('USER_GEMINI_KEY', key)
saveApiKey(key) ==
    /\ userKey' = key
    /\ lastOp' = Op("saveApiKey", NoId, FALSE, "-", Null, Null, Null)
    /\ UNCHANGED <<envKey, appVars, audioVars>>

\* a read of the credential, e.g. by getAiClient
resolve ==
    /\ lastOp' = Op("getStoredApiKey", NoId, FALSE, "-", Null, Null,
                    getStoredApiKey)
    /\ UNCHANGED <<credVars, appVars, audioVars>>

\* --------------------------------------------- completed / bookmarked ids
Range(seq) == {seq[n] : n \in DOMAIN seq}
Keep(x, id) == x # id

\* the updater with the removal branch left out
toggle_appendOnly(prev, id) == Append(prev, id)

\* prev => prev.includes(id) ? prev.filter(x => x !== id) : [...prev, id]
toggle(prev, id) ==
    IF id \in Range(prev)
    THEN SelectSeq(prev, LAMBDA x : Keep(x, id))
    ELSE Append(prev, id)

\* toggleComplete without the effect that stores the new array
toggleComplete_noPersist(id) ==
    /\ completedIds' = toggle(completedIds, id)
    /\ lastToggle' = [set |-> "completed", id |-> id, before |-> completedIds,
                      again |-> lastOp.op = "toggleComplete" /\ lastOp.id = id,
                      first |-> lastToggle.before]
    /\ lastOp' = Op("toggleComplete", id, FALSE, "-", Null, Null, Null)
    /\ UNCHANGED <<credVars, appVars, audioVars, quizReqs, videoReqs, videos,
                   videoLoading, quiz, decoded, player, chat,
                   bookmarkedIds,
                   storedCompleted, storedBookmarked>>

\* toggleComplete and the effect on [completedIds] that follows its render
toggleComplete(id) ==
    /\ completedIds' = toggle(completedIds, id)
    /\ storedCompleted' = JSONStringify(completedIds')
    /\ lastToggle' = [set |-> "completed", id |-> id, before |-> completedIds,
                      again |-> lastOp.op = "toggleComplete" /\ lastOp.id = id,
                      first |-> lastToggle.before]
    /\ lastOp' = Op("toggleComplete", id, FALSE, "-", Null, Null, Null)
    /\ UNCHANGED <<credVars, appVars, audioVars, quizReqs, videoReqs, videos,
                   videoLoading, quiz, decoded, player, chat,
                   bookmarkedIds,
                   storedBookmarked>>

\* toggleBookmark and the effect on [bookmarkedIds] that follows its render
toggleBookmark(id) ==
    /\ bookmarkedIds' = toggle(bookmarkedIds, id)
    /\ storedBookmarked' = JSONStringify(bookmarkedIds')
    /\ lastToggle' = [set |-> "bookmarked", id |-> id, before |-> bookmarkedIds,
                      again |-> lastOp.op = "toggleBookmark" /\ lastOp.id = id,
                      first |-> lastToggle.before]
    /\ lastOp' = Op("toggleBookmark", id, FALSE, "-", Null, Null, Null)
    /\ UNCHANGED <<credVars, appVars, audioVars, quizReqs, videoReqs, videos,
                   videoLoading, quiz, decoded, player, chat,
                   completedIds,
                   storedCompleted>>

\* -------------------------------------------------- error classification
AccessSignals == {"403", "permission denied", "access denied"}
QuotaSignals  == {"429", "quota"}

\* ClassifyError with the quota signals looked for first
ClassifyError_quotaFirst(err, key) ==
    IF key = "" THEN MsgNoKey
    ELSE IF err \cap QuotaSignals # {} THEN Msg429
    ELSE IF err \cap AccessSignals # {} THEN Msg403
    ELSE MsgConn

\* the message of the Error handleApiError throws for failure `err`
\* when the resolved credential is `key`
ClassifyError(err, key) ==
    IF key = "" THEN MsgNoKey
    ELSE IF err \cap AccessSignals # {} THEN Msg403
    ELSE IF err \cap QuotaSignals # {} THEN Msg429
    ELSE MsgConn

handleApiError(err) == ClassifyError(err, getStoredApiKey)

\* ------------------------------------------------------ explanation fetch
\* response.text handed on as it is
TextOrPlaceholder_passEmpty(t) == t

\* response.text || placeholder
TextOrPlaceholder(t) == IF Truthy(t) THEN t ELSE Placeholder

\* fetchExplanation with the cache consulted even on a forced refresh
fetchExplanation_forceHonorsCache(id, force, op) ==
    IF Truthy(cache[id])
    THEN /\ explanation' = Content(cache[id])
         /\ shownFor' = id
         /\ explReqs' = explReqs
         /\ lastOp' = Op(op, id, force, "hit", Null, Null, Null)
    ELSE IF ~HasKey
    THEN /\ explanation' = Failed(MsgNoKeyExplain)
         /\ shownFor' = id
         /\ explReqs' = explReqs
         /\ lastOp' = Op(op, id, force, "nokey", Null, MsgNoKeyExplain, Null)
    ELSE /\ explanation' = Loading
         /\ shownFor' = id
         /\ explReqs' = explReqs (+) SetToBag({Req(id, force, "primary")})
         /\ lastOp' = Op(op, id, force, "call", Null, Null, Null)

\* fetchExplanation with the cache never consulted
fetchExplanation_noCache(id, force, op) ==
    IF ~HasKey
    THEN /\ explanation' = Failed(MsgNoKeyExplain)
         /\ shownFor' = id
         /\ explReqs' = explReqs
         /\ lastOp' = Op(op, id, force, "nokey", Null, MsgNoKeyExplain, Null)
    ELSE /\ explanation' = Loading
         /\ shownFor' = id
         /\ explReqs' = explReqs (+) SetToBag({Req(id, force, "primary")})
         /\ lastOp' = Op(op, id, force, "call", Null, Null, Null)

\* fetchExplanation(id, force) up to its first await (or to its end when
\* it never awaits the remote): cache hit, missing credential, or the
\* primary call is issued.
fetchExplanation(id, force, op) ==
    IF ~force /\ Truthy(cache[id])
    THEN /\ explanation' = Content(cache[id])
         /\ shownFor' = id
         /\ explReqs' = explReqs
         /\ lastOp' = Op(op, id, force, "hit", Null, Null, Null)
    ELSE IF ~HasKey
    THEN \* generateExplanation rejects before any call; caught at once
         /\ explanation' = Failed(MsgNoKeyExplain)
         /\ shownFor' = id
         /\ explReqs' = explReqs
         /\ lastOp' = Op(op, id, force, "nokey", Null, MsgNoKeyExplain, Null)
    ELSE /\ explanation' = Loading
         /\ shownFor' = id
         /\ explReqs' = explReqs (+) SetToBag({Req(id, force, "primary")})
         /\ lastOp' = Op(op, id, force, "call", Null, Null, Null)

\* createChatSession(q): throws when no credential, else a new Chat
createChatSession(id) ==
    IF HasKey THEN [ok |-> TRUE,  chat |-> id,   error |-> Null]
              ELSE [ok |-> FALSE, chat |-> NoId, error |-> MsgNoKeyChat]

\* the tab buttons: onClick={() => setActiveTab(tab.id)}; the panel a tab
\* mounts keeps its own state (loadQuiz, fetchVideos)
Tabs == {"explanation", "quiz", "chat", "video"}

setActiveTab(t) ==
    /\ selectedId # NoId
    /\ activeTab' = t
    /\ lastOp' = Op("setActiveTab", selectedId, FALSE, "-", Null, Null, Null)
    /\ UNCHANGED <<credVars, selectedId, isHeaderExpanded, cache, explanation,
                   chatSession, explReqs, shownFor, audioVars>>

\* handleSelectQuestion with the session created first and its failure
\* ending the handler
handleSelectQuestion_chatFirst(id) ==
    IF createChatSession(id).ok
    THEN /\ selectedId' = id
         /\ activeTab' = "explanation"
         /\ isHeaderExpanded' = FALSE
         /\ fetchExplanation(id, FALSE, "select")
         /\ chatSession' = createChatSession(id).chat
         /\ UNCHANGED <<credVars, cache, audioVars>>
    ELSE /\ lastOp' = Op("select", id, FALSE, "crash", Null, Null, Null)
         /\ UNCHANGED <<credVars, appVars, audioVars>>

handleSelectQuestion(id) ==
    /\ selectedId' = id
    /\ activeTab' = "explanation"
    /\ isHeaderExpanded' = FALSE
    /\ fetchExplanation(id, FALSE, "select")
    /\ chatSession' = IF createChatSession(id).ok
                      THEN createChatSession(id).chat
                      ELSE chatSession      \* caught: "Chat init failed"
    /\ UNCHANGED <<credVars, cache, audioVars>>

\* the "try again" / "regenerate" buttons: fetchExplanation(selected, true)
regenerate ==
    /\ selectedId # NoId
    /\ activeTab = "explanation"
    /\ ~explanation.loading
    /\ fetchExplanation(selectedId, TRUE, "regenerate")
    /\ UNCHANGED <<credVars, selectedId, activeTab, isHeaderExpanded, cache,
                   chatSession, audioVars>>

\* explSuccess with the new cache built from the entry alone
explSuccess_dropOthers(r, result, op) ==
    /\ cache' = [i \in Ids |-> IF i = r.id THEN result ELSE Null]
    /\ explanation' = Content(result)
    /\ shownFor' = r.id
    /\ explReqs' = explReqs (-) SetToBag({r})
    /\ lastOp' = Op(op, r.id, r.force, "ok", cache[r.id], Null, result)

\* explSuccess with an entry that is already there left alone
explSuccess_keepFirst(r, result, op) ==
    /\ cache' = IF Truthy(cache[r.id]) THEN cache
                ELSE [cache EXCEPT ![r.id] = result]
    /\ explanation' = Content(result)
    /\ shownFor' = r.id
    /\ explReqs' = explReqs (-) SetToBag({r})
    /\ lastOp' = Op(op, r.id, r.force, "ok", cache[r.id], Null, result)

\* generateExplanation returned `result` to fetchExplanation
explSuccess(r, result, op) ==
    /\ cache' = [cache EXCEPT ![r.id] = result]
    /\ explanation' = Content(result)
    /\ shownFor' = r.id
    /\ explReqs' = explReqs (-) SetToBag({r})
    /\ lastOp' = Op(op, r.id, r.force, "ok", cache[r.id], Null, result)

\* primaryDone with the primary failure classified and raised at once
primaryDone_surface(r, out) ==
    /\ BagIn(r, explReqs) /\ r.stage = "primary"
    /\ IF out.ok
       THEN explSuccess(r, TextOrPlaceholder(out.text), "primaryDone")
       ELSE /\ explanation' = Failed(handleApiError(out.err))
            /\ shownFor' = r.id
            /\ explReqs' = explReqs (-) SetToBag({r})
            /\ lastOp' = OpE("primaryDone", r.id, r.force, "err", Null,
                             handleApiError(out.err), Null, out.err)
            /\ UNCHANGED cache
    /\ UNCHANGED <<credVars, selectedId, activeTab, isHeaderExpanded,
                   chatSession, audioVars>>

\* primaryDone with a failed primary call swallowed and nothing tried after
primaryDone_noFallback(r, out) ==
    /\ BagIn(r, explReqs) /\ r.stage = "primary"
    /\ IF out.ok
       THEN explSuccess(r, TextOrPlaceholder(out.text), "primaryDone")
       ELSE /\ explReqs' = explReqs (-) SetToBag({r})
            /\ lastOp' = Op("primaryDone", r.id, r.force, "retry", Null, Null, Null)
            /\ UNCHANGED <<cache, explanation, shownFor>>
    /\ UNCHANGED <<credVars, selectedId, activeTab, isHeaderExpanded,
                   chatSession, audioVars>>

\* the primary generateContent call settles
primaryDone(r, out) ==
    /\ BagIn(r, explReqs) /\ r.stage = "primary"
    /\ IF out.ok
       THEN explSuccess(r, TextOrPlaceholder(out.text), "primaryDone")
       ELSE \* swallowed; the fallback call is issued
            /\ explReqs' = (explReqs (-) SetToBag({r}))
                             (+) SetToBag({Req(r.id, r.force, "fallback")})
            /\ lastOp' = Op("primaryDone", r.id, r.force, "retry", Null, Null, Null)
            /\ UNCHANGED <<cache, explanation, shownFor>>
    /\ UNCHANGED <<credVars, selectedId, activeTab, isHeaderExpanded,
                   chatSession, audioVars>>

\* fallbackDone with the cache entry dropped when the call failed
fallbackDone_dropEntry(r, out) ==
    /\ BagIn(r, explReqs) /\ r.stage = "fallback"
    /\ IF out.ok
       THEN explSuccess(r, TextOrPlaceholder(out.text), "fallbackDone")
       ELSE /\ explanation' = Failed(handleApiError(out.err))
            /\ shownFor' = r.id
            /\ explReqs' = explReqs (-) SetToBag({r})
            /\ lastOp' = OpE("fallbackDone", r.id, r.force, "err", Null,
                             handleApiError(out.err), Null, out.err)
            /\ cache' = [cache EXCEPT ![r.id] = Null]
    /\ UNCHANGED <<credVars, selectedId, activeTab, isHeaderExpanded,
                   chatSession, audioVars>>

\* the fallback generateContent call settles
fallbackDone(r, out) ==
    /\ BagIn(r, explReqs) /\ r.stage = "fallback"
    /\ IF out.ok
       THEN explSuccess(r, TextOrPlaceholder(out.text), "fallbackDone")
       ELSE /\ explanation' = Failed(handleApiError(out.err))
            /\ shownFor' = r.id
            /\ explReqs' = explReqs (-) SetToBag({r})
            /\ lastOp' = OpE("fallbackDone", r.id, r.force, "err", Null,
                             handleApiError(out.err), Null, out.err)
            /\ UNCHANGED cache
    /\ UNCHANGED <<credVars, selectedId, activeTab, isHeaderExpanded,
                   chatSession, audioVars>>

\* ---------------------------------------------------------- audio pipeline
AReq(id, stage) == [id |-> id, stage |-> stage]

\* the settled speech call: candidates[0]...inlineData.data, no candidates,
\* no data, or a failure
Speech(p)     == [kind |-> "audio",        data |-> p,  err |-> {}]
NoCandidates  == [kind |-> "nocandidates", data |-> "", err |-> {}]
NoAudioData   == [kind |-> "nodata",       data |-> "", err |-> {}]
SpeechFail(e) == [kind |-> "error",        data |-> "", err |-> e]

\* the Errors thrown inside the try block carry none of the signals
LocalError == {}

\* generateAudioExplanation with the credential checked before the cache
generateAudioExplanation_keyFirst(id) ==
    /\ IF ~HasKey
       THEN /\ lastOp' = OpE("audio", id, FALSE, "nokey", Null,
                             handleApiError(LocalError), Null, LocalError)
            /\ UNCHANGED audioVars
       ELSE IF audioCache[id] # Null
       THEN /\ lastOp' = Op("audio", id, FALSE, "hit", Null, Null, audioCache[id])
            /\ UNCHANGED audioVars
       ELSE /\ audioReqs' = audioReqs (+) SetToBag({AReq(id, "script")})
            /\ lastOp' = Op("audio", id, FALSE, "call", Null, Null, Null)
            /\ UNCHANGED audioCache
    /\ UNCHANGED <<credVars, appVars>>

\* generateAudioExplanation(question) up to its first await
generateAudioExplanation(id) ==
    /\ IF audioCache[id] # Null
       THEN /\ lastOp' = Op("audio", id, FALSE, "hit", Null, Null, audioCache[id])
            /\ UNCHANGED audioVars
       ELSE IF ~HasKey
       THEN \* throw new Error("API Key ...") -> handleApiError
            /\ lastOp' = OpE("audio", id, FALSE, "nokey", Null,
                             handleApiError(LocalError), Null, LocalError)
            /\ UNCHANGED audioVars
       ELSE /\ audioReqs' = audioReqs (+) SetToBag({AReq(id, "script")})
            /\ lastOp' = Op("audio", id, FALSE, "call", Null, Null, Null)
            /\ UNCHANGED audioCache
    /\ UNCHANGED <<credVars, appVars>>

\* scriptDone with the speech call issued whatever the script is
scriptDone_noCheck(r, out) ==
    /\ BagIn(r, audioReqs) /\ r.stage = "script"
    /\ IF out.ok
       THEN /\ audioReqs' = (audioReqs (-) SetToBag({r}))
                              (+) SetToBag({AReq(r.id, "tts")})
            /\ lastOp' = Op("scriptDone", r.id, FALSE,
                            IF Truthy(out.text) THEN "tts" ELSE "empty",
                            Null, Null, Null)
       ELSE /\ audioReqs' = audioReqs (-) SetToBag({r})
            /\ lastOp' = OpE("scriptDone", r.id, FALSE, "fail", Null,
                             handleApiError(out.err), Null, out.err)
    /\ UNCHANGED <<credVars, appVars, audioCache>>

\* the script generateContent call settles
scriptDone(r, out) ==
    /\ BagIn(r, audioReqs) /\ r.stage = "script"
    /\ IF out.ok /\ Truthy(out.text)
       THEN \* the speech call is issued
            /\ audioReqs' = (audioReqs (-) SetToBag({r}))
                              (+) SetToBag({AReq(r.id, "tts")})
            /\ lastOp' = Op("scriptDone", r.id, FALSE, "tts", Null, Null, Null)
       ELSE IF out.ok
       THEN \* throw new Error("Failed to generate script") -> handleApiError
            /\ audioReqs' = audioReqs (-) SetToBag({r})
            /\ lastOp' = OpE("scriptDone", r.id, FALSE, "empty", Null,
                             handleApiError(LocalError), Null, LocalError)
       ELSE /\ audioReqs' = audioReqs (-) SetToBag({r})
            /\ lastOp' = OpE("scriptDone", r.id, FALSE, "fail", Null,
                             handleApiError(out.err), Null, out.err)
    /\ UNCHANGED <<credVars, appVars, audioCache>>

\* the speech generateContent call settles
ttsDone(r, out) ==
    /\ BagIn(r, audioReqs) /\ r.stage = "tts"
    /\ audioReqs' = audioReqs (-) SetToBag({r})
    /\ IF out.kind = "audio" /\ Truthy(out.data)
       THEN /\ audioCache' = [audioCache EXCEPT ![r.id] = out.data]
            /\ lastOp' = Op("ttsDone", r.id, FALSE, "ok", audioCache[r.id],
                            Null, out.data)
       ELSE IF out.kind = "error"
       THEN /\ lastOp' = OpE("ttsDone", r.id, FALSE, "fail", Null,
                             handleApiError(out.err), Null, out.err)
            /\ UNCHANGED audioCache
       ELSE \* "No candidates" / "No audio data" -> handleApiError
            /\ lastOp' = OpE("ttsDone", r.id, FALSE,
                             IF out.kind = "nocandidates" THEN "nocandidates"
                                                          ELSE "nodata",
                             Null, handleApiError(LocalError), Null, LocalError)
            /\ UNCHANGED audioCache
    /\ UNCHANGED <<credVars, appVars>>

\* ------------------------------------------------------ quiz, videos, chat
\* response.text of a structured call, by what JSON.parse makes of it: no
\* text, an empty array, an array of items, valid JSON that is no array,
\* no JSON at all.  A parsed value is named by its canonical text.
JsonTexts  == {"", "[]", "[v,v,v]", "{videos:[]}", "not json"}
ValidJson  == {"[]", "[v,v,v]", "{videos:[]}"}
JsonArrays == {"[]", "[v,v,v]"}

\* JSON.parse(text): the value, or a SyntaxError
JSONParse(text) ==
    IF text \in ValidJson THEN [ok |-> TRUE,  value |-> text]
                          ELSE [ok |-> FALSE, value |-> Null]

\* JSON.parse(response.text || "[]")
ParseOrEmpty(text) == JSONParse(IF Truthy(text) THEN text ELSE "[]")

SReq(id) == [id |-> id]

\* generateQuiz with the call issued whatever the credential is
generateQuiz_noPrecheck(id) ==
    /\ quizReqs' = quizReqs (+) SetToBag({SReq(id)})
    /\ lastOp' = Op("quiz", id, FALSE, "call", Null, Null, Null)
    /\ UNCHANGED <<credVars, appVars, audioVars, videoReqs, videos, videoLoading,
                   localVars>>

\* generateQuiz(question) up to its await
generateQuiz(id) ==
    /\ IF ~HasKey
       THEN \* thrown inside the try block -> handleApiError
            /\ lastOp' = OpE("quiz", id, FALSE, "nokey", Null,
                             handleApiError(LocalError), Null, LocalError)
            /\ UNCHANGED quizReqs
       ELSE /\ quizReqs' = quizReqs (+) SetToBag({SReq(id)})
            /\ lastOp' = Op("quiz", id, FALSE, "call", Null, Null, Null)
    /\ UNCHANGED <<credVars, appVars, audioVars, videoReqs, videos, videoLoading,
                   localVars>>

\* the quiz generateContent call settles
quizDone(r, out) ==
    /\ BagIn(r, quizReqs)
    /\ quizReqs' = quizReqs (-) SetToBag({r})
    /\ IF out.ok /\ ParseOrEmpty(out.text).ok
       THEN lastOp' = Op("quizDone", r.id, FALSE, "ok", Null, Null,
                         ParseOrEmpty(out.text).value)
       ELSE IF out.ok
       THEN \* SyntaxError -> handleApiError
            lastOp' = OpE("quizDone", r.id, FALSE, "malformed", Null,
                          handleApiError(LocalError), Null, LocalError)
       ELSE lastOp' = OpE("quizDone", r.id, FALSE, "fail", Null,
                          handleApiError(out.err), Null, out.err)
    /\ UNCHANGED <<credVars, appVars, audioVars, videoReqs, videos, videoLoading,
                   localVars>>

\* what generateQuiz does with its settled call: the array it returns
\* (raised = FALSE), or the message of the Error it throws
QuizResult(out) ==
    IF out.ok /\ ParseOrEmpty(out.text).ok
    THEN [raised |-> FALSE, value |-> ParseOrEmpty(out.text).value,
          msg |-> Null, err |-> {}]
    ELSE IF out.ok
    THEN [raised |-> TRUE, value |-> Null,
          msg |-> handleApiError(LocalError), err |-> LocalError]
    ELSE [raised |-> TRUE, value |-> Null,
          msg |-> handleApiError(out.err), err |-> out.err]

\* how the settled call looks to the caller
QuizKind(out) ==
    IF ~out.ok THEN "fail"
    ELSE IF out.text = "" THEN "empty"
    ELSE IF ~JSONParse(out.text).ok THEN "malformed"
    ELSE "ok"

\* the resets at the head of loadQuiz, with setLoading(true)
QuizLoading   == [NoQuiz EXCEPT !.loading = TRUE]
\* catch: setError(message); finally: setLoading(false)
QuizFailed(m) == [quiz EXCEPT !.loading = FALSE, !.error = m]
\* setQuestions(data); finally: setLoading(false)
QuizLoaded(v) == [quiz EXCEPT !.loading = FALSE, !.questions = v]

\* QuizInterface.loadQuiz up to the await inside generateQuiz
loadQuiz(id) ==
    /\ IF ~HasKey
       THEN \* generateQuiz rejects; catch: setError; finally: setLoading(false)
            /\ quiz' = [NoQuiz EXCEPT !.error = handleApiError(LocalError)]
            /\ lastOp' = OpE("loadQuiz", id, FALSE, "nokey", Null,
                             handleApiError(LocalError), Null, LocalError)
            /\ UNCHANGED quizReqs
       ELSE /\ quiz' = QuizLoading
            /\ quizReqs' = quizReqs (+) SetToBag({SReq(id)})
            /\ lastOp' = Op("loadQuiz", id, FALSE, "call", Null, Null, Null)
    /\ UNCHANGED <<credVars, appVars, audioVars, videoReqs, videos, videoLoading,
                   progVars, decoded, player, chat>>

\* the quiz call settles, generateQuiz returns or throws, loadQuiz resumes;
\* lastOp.msg / lastOp.ret are what generateQuiz threw / returned
loadQuizDone(r, out) ==
    /\ BagIn(r, quizReqs)
    /\ quizReqs' = quizReqs (-) SetToBag({r})
    /\ quiz' = IF QuizResult(out).raised
               THEN QuizFailed(QuizResult(out).msg)
               ELSE IF QuizResult(out).value = "[]"
               THEN QuizFailed(MsgQuizEmpty)      \* data.length === 0
               ELSE QuizLoaded(QuizResult(out).value)
    /\ lastOp' = OpE("loadQuizDone", r.id, FALSE, QuizKind(out), Null,
                     QuizResult(out).msg, QuizResult(out).value,
                     QuizResult(out).err)
    /\ UNCHANGED <<credVars, appVars, audioVars, videoReqs, videos, videoLoading,
                   progVars, decoded, player, chat>>

\* ------------------------------------------------------------- quiz run
\* the option buttons of an item: "4 options per question"
Options == 0..3

\* correctAnswer of each item of a parsed quiz array; the last one names
\* no option
QuizItems(text) == IF text = "[v,v,v]" THEN <<0, 3, 4>> ELSE <<>>

\* the item view is rendered: not loading, no error, no results, items
QuizShown ==
    /\ ~quiz.loading /\ quiz.error = Null /\ ~quiz.showResults
    /\ QuizItems(quiz.questions) # <<>>

\* the panel is mounted for a question, or one of its two reload buttons
\* (error view, results view) is pressed; the spinner view has no button,
\* and selecting another question unmounts the panel (the explanation tab
\* is shown), so one mounted panel never has two loads outstanding
loadQuizIdle(id) ==
    /\ ~quiz.loading
    /\ loadQuiz(id)

handleOptionClick(index) ==
    /\ QuizShown
    /\ ~quiz.isAnswered                 \* disabled={isAnswered}; early return
    /\ quiz' = [quiz EXCEPT !.selectedOption = index]
    /\ lastOp' = Op("handleOptionClick", NoId, FALSE, "-", Null, Null, Null)
    /\ UNCHANGED <<credVars, appVars, audioVars, quizReqs, videoReqs, videos,
                   videoLoading, progVars, decoded, player, chat>>

\* handleCheck with isAnswered left false
handleCheck_staysOpen ==
    /\ QuizShown
    /\ ~quiz.isAnswered
    /\ quiz.selectedOption # NoOption
    /\ quiz' = [quiz EXCEPT
                  !.score = IF quiz.selectedOption
                                 = QuizItems(quiz.questions)[quiz.currentIndex + 1]
                            THEN @ + 1 ELSE @,
                  !.checked = @ + 1]
    /\ lastOp' = Op("handleCheck", NoId, FALSE, "-", Null, Null, Null)
    /\ UNCHANGED <<credVars, appVars, audioVars, quizReqs, videoReqs, videos,
                   videoLoading, progVars, decoded, player, chat>>

\* the check button: rendered while !isAnswered, disabled while nothing is
\* selected
handleCheck ==
    /\ QuizShown
    /\ ~quiz.isAnswered
    /\ quiz.selectedOption # NoOption
    /\ quiz' = [quiz EXCEPT
                  !.isAnswered = TRUE,
                  !.score = IF quiz.selectedOption
                                 = QuizItems(quiz.questions)[quiz.currentIndex + 1]
                            THEN @ + 1 ELSE @,
                  !.checked = @ + 1]
    /\ lastOp' = Op("handleCheck", NoId, FALSE, "-", Null, Null, Null)
    /\ UNCHANGED <<credVars, appVars, audioVars, quizReqs, videoReqs, videos,
                   videoLoading, progVars, decoded, player, chat>>

\* the next button: rendered while isAnswered
handleNext ==
    /\ QuizShown
    /\ quiz.isAnswered
    /\ quiz' = IF quiz.currentIndex < Len(QuizItems(quiz.questions)) - 1
               THEN [quiz EXCEPT !.currentIndex = @ + 1,
                                 !.selectedOption = NoOption,
                                 !.isAnswered = FALSE]
               ELSE [quiz EXCEPT !.showResults = TRUE]
    /\ lastOp' = Op("handleNext", NoId, FALSE, "-", Null, Null, Null)
    /\ UNCHANGED <<credVars, appVars, audioVars, quizReqs, videoReqs, videos,
                   videoLoading, progVars, decoded, player, chat>>

\* VideoResources.fetchVideos with getVideoRecommendations up to its await
fetchVideos(id) ==
    /\ IF ~HasKey
       THEN \* `return []`, then setVideos(recs); setLoading(false)
            /\ videos' = "[]"
            /\ videoLoading' = FALSE
            /\ lastOp' = Op("video", id, FALSE, "nokey", Null, Null, "[]")
            /\ UNCHANGED videoReqs
       ELSE /\ videoLoading' = TRUE
            /\ videoReqs' = videoReqs (+) SetToBag({SReq(id)})
            /\ lastOp' = Op("video", id, FALSE, "call", Null, Null, Null)
            /\ UNCHANGED videos
    /\ UNCHANGED <<credVars, appVars, audioVars, quizReqs, localVars>>

\* what getVideoRecommendations returns once its call has settled
VideoResult(out) ==
    IF out.ok /\ ParseOrEmpty(out.text).ok
    THEN ParseOrEmpty(out.text).value
    ELSE "[]"

\* the video generateContent call settles; fetchVideos resumes
videoDone(r, out) ==
    /\ BagIn(r, videoReqs)
    /\ videoReqs' = videoReqs (-) SetToBag({r})
    /\ videos' = VideoResult(out)
    /\ videoLoading' = FALSE
    /\ lastOp' = Op("videoDone", r.id, FALSE,
                    IF out.ok /\ ParseOrEmpty(out.text).ok THEN "ok" ELSE "caught",
                    Null, Null, VideoResult(out))
    /\ UNCHANGED <<credVars, appVars, audioVars, quizReqs, localVars>>

\* a call of createChatSession(question)
callCreateChatSession(id) ==
    /\ lastOp' = Op("createChatSession", id, FALSE,
                    IF createChatSession(id).ok THEN "ok" ELSE "nokey",
                    Null, createChatSession(id).error, Null)
    /\ UNCHANGED <<credVars, appVars, audioVars, svcVars>>

\* ------------------------------------------------------------ chat panel
\* everything but the chat panel, the credential, App and the audio service
notChat == <<quizReqs, videoReqs, videos, videoLoading, quiz, progVars,
             decoded, player>>

\* what is typed into the input field
ChatInputs == {"", " ", "why"}

\* {activeTab === 'chat' && <ChatInterface chatSession={chatSession} />}
ChatMounted == selectedId # NoId /\ activeTab = "chat"

UserMessage(text)  == [role |-> "user",  text |-> text]
ModelMessage(text) == [role |-> "model", text |-> text]

\* onChange={(e) => setInput(e.target.value)}
setInput(text) ==
    /\ ChatMounted
    /\ chat' = [chat EXCEPT !.input = text]
    /\ lastOp' = Op("setInput", NoId, FALSE, "-", Null, Null, Null)
    /\ UNCHANGED <<credVars, appVars, audioVars, notChat>>

\* handleSend up to its await. The form submits through its button, which
\* is disabled while loading; blank input is left to the handler's own test.
handleSend ==
    /\ ChatMounted
    /\ ~chat.loading
    /\ IF Trim(chat.input) = "" \/ chatSession = NoId
       THEN /\ chat' = chat
            /\ lastOp' = Op("handleSend", NoId, FALSE, "noop", Null, Null, Null)
       ELSE /\ chat' = [chat EXCEPT
                          !.input = "",
                          !.messages = Append(@, UserMessage(chat.input)),
                          !.loading = TRUE,
                          !.awaiting = TRUE]
            /\ lastOp' = Op("handleSend", NoId, FALSE, "sent", Null, Null,
                            chat.input)
    /\ UNCHANGED <<credVars, appVars, audioVars, notChat>>

\* the rest of handleSend with the finally block left out
sendDone_keepsLoading(out) ==
    /\ ChatMounted
    /\ chat.awaiting
    /\ chat' = [chat EXCEPT
                  !.messages = Append(@, ModelMessage(
                                  IF ~out.ok THEN MsgChatError
                                  ELSE IF out.text = "" THEN Ellipsis
                                  ELSE out.text)),
                  !.awaiting = FALSE]
    /\ lastOp' = Op("sendDone", NoId, FALSE, IF out.ok THEN "ok" ELSE "fail",
                    Null, Null, out.text)
    /\ UNCHANGED <<credVars, appVars, audioVars, notChat>>

\* chatSession.sendMessage settles: the rest of handleSend (try / catch /
\* finally)
sendDone(out) ==
    /\ ChatMounted
    /\ chat.awaiting
    /\ chat' = [chat EXCEPT
                  !.messages = Append(@, ModelMessage(
                                  IF ~out.ok THEN MsgChatError
                                  ELSE IF out.text = "" THEN Ellipsis
                                  ELSE out.text)),
                  !.loading = FALSE,
                  !.awaiting = FALSE]
    /\ lastOp' = Op("sendDone", NoId, FALSE, IF out.ok THEN "ok" ELSE "fail",
                    Null, Null, out.text)
    /\ UNCHANGED <<credVars, appVars, audioVars, notChat>>

\* a tab button with the chat panel: leaving the chat tab unmounts the
\* panel (its state is discarded and a reply that settles later sets
\* nothing), entering it mounts a new one, whose effect on [chatSession]
\* sets the greeting
tabWithChat(t) ==
    /\ setActiveTab(t)
    /\ chat' = IF activeTab = "chat" /\ t = "chat" THEN chat ELSE NoChat
    /\ UNCHANGED notChat

\* handleSelectQuestion with the chat panel: setActiveTab('explanation')
\* unmounts it
selectWithChat(id) ==
    /\ handleSelectQuestion(id)
    /\ chat' = NoChat
    /\ UNCHANGED notChat

\* ---------------------------------------------------------- audio player
\* everything but the player, the credential, App and the audio service
notPlayer == <<quizReqs, videoReqs, videos, videoLoading, quiz, progVars,
               decoded, chat>>

\* startPlayback(buffer): the source in the ref is stopped, a new source is
\* created for the buffer, started and put in the ref
startPlayback(p, buffer) ==
    LET prior == IF p.sourceNodeRef # NoSource THEN {p.sourceNodeRef} ELSE {}
        source == [n |-> p.created + 1, id |-> buffer]
    IN  [p EXCEPT !.active = (@ \ prior) \cup {source},
                  !.ending = @ \cup (prior \cap p.active),
                  !.sourceNodeRef = source,
                  !.isPlaying = TRUE,
                  !.created = @ + 1]

\* stopAudio(): the source in the ref is stopped and the ref cleared
stopAudio(p) ==
    LET prior == IF p.sourceNodeRef # NoSource THEN {p.sourceNodeRef} ELSE {}
    IN  [p EXCEPT !.active = @ \ prior,
                  !.ending = @ \cup (prior \cap p.active),
                  !.sourceNodeRef = NoSource,
                  !.isPlaying = FALSE]

\* the catch block of playAudio: err.message.includes("API Key") ||
\* err.message.includes("403")
PlayerError(msg) == IF msg \in {MsgNoKey, Msg403} THEN MsgPlayerKey
                    ELSE MsgPlayerLoad

\* playAudio after `await generateAudioExplanation(question)` for question
\* q, op being what the service call did last: still waiting, returned the
\* payload (decoded, kept in audioBufferRef and played), or threw
playAudioAwait(p, q, op) ==
    IF op.res \in {"call", "tts"}
    THEN [p EXCEPT !.loading = TRUE, !.awaiting = q]
    ELSE IF op.res \in {"hit", "ok"}
    THEN [startPlayback([p EXCEPT !.audioBufferRef = q], q)
             EXCEPT !.loading = FALSE, !.awaiting = NoId]
    ELSE [p EXCEPT !.error = PlayerError(op.msg), !.loading = FALSE,
                   !.awaiting = NoId]

\* the play button (shown while neither loading nor playing), with the
\* audio context running
playAudio ==
    /\ selectedId # NoId /\ activeTab = "explanation"
    /\ ~player.loading /\ ~player.isPlaying
    /\ player.created < MaxSources
    /\ IF player.audioBufferRef # NoId
       THEN /\ player' = startPlayback([player EXCEPT !.error = Null],
                                       player.audioBufferRef)
            /\ lastOp' = Op("playAudio", selectedId, FALSE, "replay", Null,
                            Null, Null)
            /\ UNCHANGED <<credVars, appVars, audioVars>>
       ELSE /\ generateAudioExplanation(selectedId)
            /\ player' = playAudioAwait([player EXCEPT !.error = Null],
                                        selectedId, lastOp')
    /\ UNCHANGED notPlayer

\* the script call of the awaited generateAudioExplanation settles
playScriptDone(r, out) ==
    /\ scriptDone(r, out)
    /\ player' = playAudioAwait(player, r.id, lastOp')
    /\ UNCHANGED notPlayer

\* the speech call of the awaited generateAudioExplanation settles
playTtsDone(r, out) ==
    /\ ttsDone(r, out)
    /\ player' = playAudioAwait(player, r.id, lastOp')
    /\ UNCHANGED notPlayer

\* the stop button (shown while playing and not loading)
clickStop ==
    /\ selectedId # NoId /\ activeTab = "explanation"
    /\ player.isPlaying /\ ~player.loading
    /\ player' = stopAudio(player)
    /\ lastOp' = Op("stopAudio", selectedId, FALSE, "-", Null, Null, Null)
    /\ UNCHANGED <<credVars, appVars, audioVars, notPlayer>>

\* the ended event of a source is delivered, for one that played to its
\* end or one that was stopped:
\* source.onended = () => { setIsPlaying(false); sourceNodeRef.current = null }
onended(src) ==
    /\ src \in player.active \cup player.ending
    /\ player' = [player EXCEPT !.active = @ \ {src},
                                !.ending = @ \ {src},
                                !.isPlaying = FALSE,
                                !.sourceNodeRef = NoSource]
    /\ lastOp' = Op("onended", src.id, FALSE, "-", Null, Null, Null)
    /\ UNCHANGED <<credVars, appVars, audioVars, notPlayer>>

\* handleSelectQuestion with the AudioPlayer on screen: the effect on
\* [question.id] runs when the question changes
selectWithPlayer(id) ==
    /\ handleSelectQuestion(id)
    /\ player' = IF selectedId # NoId /\ id # selectedId
                 THEN [stopAudio(player) EXCEPT !.audioBufferRef = NoId,
                                                !.error = Null]
                 ELSE player
    /\ UNCHANGED notPlayer

\* ------------------------------------------------------- audio decoder
\* A base64 text is the sequence of the 6-bit values of its characters
\* (padding left out); these values are enough to spell the bytes
\* 00 80 (-32768) and FF 7F (32767).
Sextets == {0, 8, 55, 63}

\* bytes that n base64 characters carry
NumBytes(n) == (n * 3) \div 4

\* texts atob accepts; playAudio throws on an empty payload before decoding
Base64Texts ==
    UNION {[1..n -> Sextets] :
             n \in {m \in 1..(2 * MaxBytes) :
                       m % 4 # 1 /\ NumBytes(m) <= MaxBytes}}

\* character code k (from 0) of atob(text)
atob(text, k) ==
    CASE k % 3 = 0 -> text[4 * (k \div 3) + 1] * 4
                        + text[4 * (k \div 3) + 2] \div 16
      [] k % 3 = 1 -> (text[4 * (k \div 3) + 2] % 16) * 16
                        + text[4 * (k \div 3) + 3] \div 4
      [] OTHER     -> (text[4 * (k \div 3) + 3] % 4) * 64
                        + text[4 * (k \div 3) + 4]

\* Uint8Array of the character codes of atob(base64)
decodeBase64(base64) ==
    [n \in 1..NumBytes(Len(base64)) |-> atob(base64, n - 1) % 256]

channelCount == 1
sampleRate == 24000

\* element i (from 0) of an Int16Array over the bytes, high byte first
Int16At_bigEndian(bytes, i) ==
    IF bytes[2 * i + 1] * 256 + bytes[2 * i + 2] >= 32768
    THEN bytes[2 * i + 1] * 256 + bytes[2 * i + 2] - 65536
    ELSE bytes[2 * i + 1] * 256 + bytes[2 * i + 2]

\* element i (from 0) of new Int16Array(bytes.buffer): two's complement of
\* the 16 bits, low byte first as on every browser platform
Int16At(bytes, i) ==
    IF bytes[2 * i + 1] + bytes[2 * i + 2] * 256 >= 32768
    THEN bytes[2 * i + 1] + bytes[2 * i + 2] * 256 - 65536
    ELSE bytes[2 * i + 1] + bytes[2 * i + 2] * 256

\* dataInt16: an odd-length array loses its last byte first
ValidBytes(bytes) ==
    IF Len(bytes) % 2 # 0 THEN SubSeq(bytes, 1, Len(bytes) - 1) ELSE bytes

FrameCount(bytes) == Len(ValidBytes(bytes)) \div 2

\* ctx.createBuffer(channelCount, frameCount, sampleRate) throws
\* NotSupportedError for a length of zero (Web Audio API)
CreateBufferThrows(frameCount) == frameCount = 0

\* channelData[i] = dataInt16[i] / 32768.0, kept as the exact quotient
\* (a float32 holds every such value)
ChannelData(bytes) ==
    [n \in 1..FrameCount(bytes) |->
        [num |-> Int16At(ValidBytes(bytes), n - 1), den |-> 32768]]

\* processAudioData(base64Data) on the payload at hand
processAudioData ==
    /\ decoded.input # <<>>
    /\ decoded.calls < MaxDecodes
    /\ LET bytes == decodeBase64(decoded.input)
           threw == CreateBufferThrows(FrameCount(bytes))
           data  == IF threw THEN <<>> ELSE ChannelData(bytes)
       IN  /\ decoded' = [input    |-> decoded.input,
                          calls    |-> decoded.calls + 1,
                          bytes    |-> bytes,
                          raised   |-> threw,
                          samples  |-> data,
                          first    |-> IF decoded.calls = 0 THEN data
                                       ELSE decoded.first,
                          channels |-> IF threw THEN 0 ELSE channelCount,
                          sampleRate |-> IF threw THEN 0 ELSE sampleRate]
           /\ lastOp' = Op("processAudioData", NoId, FALSE,
                           IF threw THEN "throw" ELSE "ok", Null, Null, Null)
    /\ UNCHANGED <<credVars, appVars, audioVars, quizReqs, videoReqs, videos,
                   videoLoading, quiz, progVars, player, chat>>

\* the page is loaded again: module and component state start over, and
\* the useState initialisers read localStorage (both keys have been
\* written since the effects of the first mount), then the effects store
\* the arrays again
restart ==
    /\ completedIds' = JSONParseIds(storedCompleted)
    /\ bookmarkedIds' = JSONParseIds(storedBookmarked)
    /\ storedCompleted' = JSONStringify(completedIds')
    /\ storedBookmarked' = JSONStringify(bookmarkedIds')
    /\ selectedId' = NoId
    /\ activeTab' = "explanation"
    /\ isHeaderExpanded' = FALSE
    /\ cache' = [i \in Ids |-> Null]
    /\ explanation' = [loading |-> FALSE, content |-> Null, error |-> Null]
    /\ chatSession' = NoId
    /\ explReqs' = EmptyBag
    /\ audioCache' = [i \in Ids |-> Null]
    /\ audioReqs' = EmptyBag
    /\ shownFor' = NoId
    /\ quizReqs' = EmptyBag
    /\ videoReqs' = EmptyBag
    /\ videos' = "[]"
    /\ videoLoading' = FALSE
    /\ quiz' = NoQuiz
    /\ decoded' = NoDecode
    /\ player' = NoPlayer
    /\ chat' = NoChat
    /\ lastOp' = Op("restart", NoId, FALSE, "-", Null, Null, Null)
    /\ UNCHANGED <<credVars, lastToggle>>

\* ------------------------------------------------------------------ spec
\* the state of a freshly loaded page, but for the stored credential
InitState ==
    /\ envKey \in EnvKeys
    /\ selectedId = NoId
    /\ activeTab = "explanation"
    /\ isHeaderExpanded = FALSE
    /\ cache = [i \in Ids |-> Null]
    /\ explanation = [loading |-> FALSE, content |-> Null, error |-> Null]
    /\ chatSession = NoId
    /\ explReqs = EmptyBag
    /\ audioCache = [i \in Ids |-> Null]
    /\ audioReqs = EmptyBag
    /\ shownFor = NoId
    /\ quizReqs = EmptyBag
    /\ videoReqs = EmptyBag
    /\ videos = "[]"
    /\ videoLoading = FALSE
    /\ quiz = NoQuiz
    /\ completedIds = <<>>
    /\ bookmarkedIds = <<>>
    /\ storedCompleted = JSONStringify(<<>>)
    /\ storedBookmarked = JSONStringify(<<>>)
    /\ lastToggle = NoToggle
    /\ player = NoPlayer
    /\ chat = NoChat
    /\ nfFetches = [i \in Ids |-> 0]
    /\ nfCalls = [i \in Ids |-> 0]
    /\ started = 0

\* first visit: nothing stored under USER_GEMINI_KEY
InitApp ==
    /\ InitState
    /\ decoded = NoDecode
    /\ userKey = Null
    /\ lastOp = Op("init", NoId, FALSE, "-", Null, Null, Null)

Init == InitApp

\* outcomes of a remote text call in the explanation runs (the signals of
\* a primary failure are never read)
PrimaryOutcomes  == {Reply(t) : t \in ReplyTexts} \cup {Failure({})}
FallbackOutcomes == {Reply(t) : t \in ReplyTexts} \cup {Failure(e) : e \in RemoteErrors}

\* at most MaxInFlight generateExplanation calls are outstanding
ExplBound == BagCardinality(explReqs') <= MaxInFlight

\* the application: credential, selection, forced refresh, explanation chain
Next ==
    \/ \E k \in KeyInputs : saveApiKey(k) /\ UNCHANGED <<histVars, svcVars>>
    \/ \E i \in Ids : handleSelectQuestion(i) /\ ExplBound /\ UNCHANGED <<histVars, svcVars>>
    \/ regenerate /\ ExplBound /\ UNCHANGED <<histVars, svcVars>>
    \/ \E r \in BagToSet(explReqs), o \in PrimaryOutcomes :
          primaryDone(r, o) /\ UNCHANGED <<histVars, svcVars>>
    \/ \E r \in BagToSet(explReqs), o \in FallbackOutcomes :
          fallbackDone(r, o) /\ UNCHANGED <<histVars, svcVars>>

Spec == Init /\ [][Next]_vars

\* ---- the counted runs: force=false fetches and the calls they issue -----
\* a force=false fetch of question i went to the remote in this step (the
\* chain of primary and fallback call counts as one remote call)
IssuedFor(i) ==
    IF \E r \in BagToSet(explReqs') :
          /\ r.id = i /\ ~r.force /\ r.stage = "primary"
          /\ CopiesIn(r, explReqs') > CopiesIn(r, explReqs)
    THEN 1 ELSE 0

\* nfCalls counts 0, 1, "more than one" (2)
CountCalls ==
    nfCalls' = [i \in Ids |-> IF nfCalls[i] + IssuedFor(i) > 2 THEN 2
                              ELSE nfCalls[i] + IssuedFor(i)]

NextFetch ==
    \/ \E i \in Ids :
          /\ nfFetches[i] < MaxFetches
          /\ handleSelectQuestion(i) /\ ExplBound
          /\ nfFetches' = [nfFetches EXCEPT ![i] = @ + 1]
          /\ CountCalls /\ UNCHANGED <<started, svcVars>>
    \/ \E r \in BagToSet(explReqs), o \in PrimaryOutcomes :
          primaryDone(r, o) /\ CountCalls /\ UNCHANGED <<nfFetches, started, svcVars>>
    \/ \E r \in BagToSet(explReqs), o \in FallbackOutcomes :
          fallbackDone(r, o) /\ CountCalls /\ UNCHANGED <<nfFetches, started, svcVars>>

SpecFetch == Init /\ [][NextFetch]_vars

\* ---- the audio service: credential and generateAudioExplanation --------
ScriptOutcomes == {Reply(t) : t \in {"S", ""}} \cup {Failure(e) : e \in RemoteErrors}
SpeechOutcomes == {Speech(p) : p \in Payloads} \cup {NoCandidates, NoAudioData}
                     \cup {SpeechFail(e) : e \in RemoteErrors}

AudioBound == BagCardinality(audioReqs') <= MaxAudio

NextAudio ==
    \/ \E k \in KeyInputs : saveApiKey(k) /\ UNCHANGED <<histVars, svcVars>>
    \/ \E i \in Ids : generateAudioExplanation(i) /\ AudioBound /\ UNCHANGED <<histVars, svcVars>>
    \/ \E r \in BagToSet(audioReqs), o \in ScriptOutcomes :
          scriptDone(r, o) /\ UNCHANGED <<histVars, svcVars>>
    \/ \E r \in BagToSet(audioReqs), o \in SpeechOutcomes :
          ttsDone(r, o) /\ UNCHANGED <<histVars, svcVars>>

SpecAudio == Init /\ [][NextAudio]_vars

\* ---- explanation and audio together, a bounded number of operations ----
InFlight  == BagCardinality(explReqs) + BagCardinality(audioReqs)
InFlightN == BagCardinality(explReqs') + BagCardinality(audioReqs')

\* an operation that goes to the remote counts against MaxOps
CountOp ==
    /\ started' = started + (IF InFlightN > InFlight THEN 1 ELSE 0)
    /\ started' <= MaxOps
    /\ UNCHANGED <<nfFetches, nfCalls, svcVars>>

NextCaches ==
    \/ \E i \in Ids : handleSelectQuestion(i) /\ ExplBound /\ CountOp
    \/ regenerate /\ ExplBound /\ CountOp
    \/ \E r \in BagToSet(explReqs), o \in PrimaryOutcomes :
          primaryDone(r, o) /\ CountOp
    \/ \E r \in BagToSet(explReqs), o \in FallbackOutcomes :
          fallbackDone(r, o) /\ CountOp
    \/ \E i \in Ids : generateAudioExplanation(i) /\ AudioBound /\ CountOp
    \/ \E r \in BagToSet(audioReqs), o \in ScriptOutcomes :
          scriptDone(r, o) /\ CountOp
    \/ \E r \in BagToSet(audioReqs), o \in SpeechOutcomes :
          ttsDone(r, o) /\ CountOp

SpecCaches == Init /\ [][NextCaches]_vars

\* ---- the service entry points: credential, explanation, quiz, videos, chat
\* the quiz call carries responseSchema {type: ARRAY}; the video call asks
\* for "application/json" only, so its text may be any JSON value
QuizOutcomes  == {Reply(t) : t \in JsonTexts \ (ValidJson \ JsonArrays)}
                    \cup {Failure(e) : e \in RemoteErrors}
VideoOutcomes == {Reply(t) : t \in JsonTexts} \cup {Failure({})}

\* at most MaxInFlight remote calls are outstanding
SvcInFlight  == BagCardinality(explReqs) + BagCardinality(quizReqs)
                   + BagCardinality(videoReqs)
SvcInFlightN == BagCardinality(explReqs') + BagCardinality(quizReqs')
                   + BagCardinality(videoReqs')

\* ... and at most MaxOps operations go to the remote in a run
SvcBound ==
    /\ SvcInFlightN <= MaxInFlight
    /\ started' = started + (IF SvcInFlightN > SvcInFlight THEN 1 ELSE 0)
    /\ started' <= MaxOps
    /\ UNCHANGED <<nfFetches, nfCalls>>

\* a credential change counts against MaxOps as well
KeyBound ==
    /\ started' = started + 1
    /\ started' <= MaxOps
    /\ UNCHANGED <<nfFetches, nfCalls>>

NextServices ==
    \/ \E k \in KeyInputs : saveApiKey(k) /\ UNCHANGED svcVars /\ KeyBound
    \/ \E i \in Ids : handleSelectQuestion(i) /\ UNCHANGED svcVars /\ SvcBound
    \/ \E r \in BagToSet(explReqs), o \in PrimaryOutcomes :
          primaryDone(r, o) /\ UNCHANGED svcVars /\ SvcBound
    \/ \E r \in BagToSet(explReqs), o \in FallbackOutcomes :
          fallbackDone(r, o) /\ UNCHANGED svcVars /\ SvcBound
    \/ \E i \in Ids : generateQuiz(i) /\ SvcBound
    \/ \E r \in BagToSet(quizReqs), o \in QuizOutcomes :
          quizDone(r, o) /\ SvcBound
    \/ \E i \in Ids : fetchVideos(i) /\ SvcBound
    \/ \E r \in BagToSet(videoReqs), o \in VideoOutcomes :
          videoDone(r, o) /\ SvcBound
    \/ \E i \in Ids : callCreateChatSession(i) /\ SvcBound

SpecServices == Init /\ [][NextServices]_vars

\* ---- the video panel alone ---------------------------------------------
VideoBound == BagCardinality(videoReqs') <= MaxInFlight

NextVideo ==
    \/ \E k \in KeyInputs : saveApiKey(k) /\ UNCHANGED <<histVars, svcVars>>
    \/ \E i \in Ids : fetchVideos(i) /\ VideoBound /\ UNCHANGED histVars
    \/ \E r \in BagToSet(videoReqs), o \in VideoOutcomes :
          videoDone(r, o) /\ UNCHANGED histVars

SpecVideo == Init /\ [][NextVideo]_vars

\* ---- error classification alone ----------------------------------------
\* a failure with any of the signals in its text has been thrown inside a
\* try block, under any stored credential
InitClassify ==
    /\ InitState
    /\ decoded = NoDecode
    /\ userKey \in {Null} \cup KeyInputs
    /\ \E e \in SUBSET Signals :
          lastOp = OpE("thrown", NoId, FALSE, "-", Null, Null, Null, e)

\* the catch block hands the failure to handleApiError
classify ==
    /\ lastOp.op = "thrown"
    /\ lastOp' = OpE("handleApiError", NoId, FALSE, "-", Null,
                     handleApiError(lastOp.err), Null, lastOp.err)
    /\ UNCHANGED <<credVars, appVars, audioVars, svcVars, histVars>>

NextClassify == classify

SpecClassify == InitClassify /\ [][NextClassify]_vars

\* ---- the quiz panel ----------------------------------------------------
QuizBound == BagCardinality(quizReqs') <= MaxInFlight

NextQuiz ==
    \/ \E k \in KeyInputs : saveApiKey(k) /\ UNCHANGED <<histVars, svcVars>>
    \/ \E i \in Ids : loadQuiz(i) /\ QuizBound /\ UNCHANGED histVars
    \/ \E r \in BagToSet(quizReqs), o \in QuizOutcomes :
          loadQuizDone(r, o) /\ UNCHANGED histVars

SpecQuiz == Init /\ [][NextQuiz]_vars

\* ---- selection, tabs and credential, a bounded number of operations -----
NextSelect ==
    \/ \E k \in KeyInputs : saveApiKey(k) /\ UNCHANGED svcVars /\ KeyBound
    \/ \E t \in Tabs : setActiveTab(t) /\ CountOp
    \/ \E i \in Ids : handleSelectQuestion(i) /\ ExplBound /\ CountOp
    \/ \E r \in BagToSet(explReqs), o \in PrimaryOutcomes :
          primaryDone(r, o) /\ CountOp
    \/ \E r \in BagToSet(explReqs), o \in FallbackOutcomes :
          fallbackDone(r, o) /\ CountOp

SpecSelect == Init /\ [][NextSelect]_vars

\* ---- credential and progress sets, local storage only ------------------
NextLocal ==
    \/ \E k \in RawKeys : saveApiKey(k) /\ UNCHANGED <<svcVars, histVars>>
    \/ resolve /\ UNCHANGED <<svcVars, histVars>>
    \/ \E i \in Ids : toggleComplete(i) /\ UNCHANGED histVars
    \/ \E i \in Ids : toggleBookmark(i) /\ UNCHANGED histVars
    \/ restart /\ UNCHANGED histVars

SpecLocal == Init /\ [][NextLocal]_vars

\* ---- the audio decoder alone -------------------------------------------
\* generateAudioExplanation has returned some payload
InitDecode ==
    /\ InitState
    /\ userKey = Null
    /\ lastOp = Op("init", NoId, FALSE, "-", Null, Null, Null)
    /\ \E t \in Base64Texts : decoded = [NoDecode EXCEPT !.input = t]

NextDecode == processAudioData /\ UNCHANGED histVars

SpecDecode == InitDecode /\ [][NextDecode]_vars

\* ---- the audio player on the explanation tab ----------------------------
NextPlayer ==
    \/ \E i \in Ids : selectWithPlayer(i) /\ ExplBound /\ UNCHANGED histVars
    \/ \E r \in BagToSet(explReqs), o \in PrimaryOutcomes :
          primaryDone(r, o) /\ UNCHANGED <<svcVars, histVars>>
    \/ \E r \in BagToSet(explReqs), o \in FallbackOutcomes :
          fallbackDone(r, o) /\ UNCHANGED <<svcVars, histVars>>
    \/ playAudio /\ UNCHANGED histVars
    \/ \E r \in BagToSet(audioReqs), o \in ScriptOutcomes :
          playScriptDone(r, o) /\ UNCHANGED histVars
    \/ \E r \in BagToSet(audioReqs), o \in SpeechOutcomes :
          playTtsDone(r, o) /\ UNCHANGED histVars
    \/ clickStop /\ UNCHANGED histVars
    \/ \E src \in player.active \cup player.ending :
          onended(src) /\ UNCHANGED histVars

SpecPlayer == Init /\ [][NextPlayer]_vars

\* ---- overlapping calls: up to MaxOverlap of each kind outstanding -------
OverlapBound ==
    /\ BagCardinality(explReqs') <= MaxOverlap
    /\ BagCardinality(audioReqs') <= MaxOverlap

NextOverlap ==
    \/ \E i \in Ids : handleSelectQuestion(i) /\ OverlapBound /\ CountOp
    \/ \E r \in BagToSet(explReqs), o \in PrimaryOutcomes :
          primaryDone(r, o) /\ CountOp
    \/ \E r \in BagToSet(explReqs), o \in FallbackOutcomes :
          fallbackDone(r, o) /\ CountOp
    \/ \E i \in Ids : generateAudioExplanation(i) /\ OverlapBound /\ CountOp
    \/ \E r \in BagToSet(audioReqs), o \in ScriptOutcomes :
          scriptDone(r, o) /\ CountOp
    \/ \E r \in BagToSet(audioReqs), o \in SpeechOutcomes :
          ttsDone(r, o) /\ CountOp

SpecOverlap == Init /\ [][NextOverlap]_vars

\* ---- explanation fetches whose remote calls all settle ------------------
LiveBound == BagCardinality(explReqs') <= MaxOverlap

SettlePrimary ==
    \E r \in BagToSet(explReqs), o \in PrimaryOutcomes :
        primaryDone(r, o) /\ CountOp

SettleFallback ==
    \E r \in BagToSet(explReqs), o \in FallbackOutcomes :
        fallbackDone(r, o) /\ CountOp

NextLive ==
    \/ \E i \in Ids : handleSelectQuestion(i) /\ LiveBound /\ CountOp
    \/ regenerate /\ LiveBound /\ CountOp
    \/ SettlePrimary
    \/ SettleFallback

\* every remote call eventually completes, successfully or not
SpecLive ==
    /\ Init /\ [][NextLive]_vars
    /\ WF_vars(SettlePrimary) /\ WF_vars(SettleFallback)

\* ---- a quiz run ---------------------------------------------------------
NextQuizRun ==
    \/ \E k \in KeyInputs : saveApiKey(k) /\ UNCHANGED <<histVars, svcVars>>
    \/ \E i \in Ids : loadQuizIdle(i) /\ UNCHANGED histVars
    \/ \E r \in BagToSet(quizReqs), o \in QuizOutcomes :
          loadQuizDone(r, o) /\ UNCHANGED histVars
    \/ \E index \in Options : handleOptionClick(index) /\ UNCHANGED histVars
    \/ handleCheck /\ UNCHANGED histVars
    \/ handleNext /\ UNCHANGED histVars

SpecQuizRun == Init /\ [][NextQuizRun]_vars

\* ---- the chat panel -----------------------------------------------------
SendOutcomes == {Reply(t) : t \in ReplyTexts} \cup {Failure({})}

\* a mounted panel is driven through at most MaxSends sends; the
\* explanation calls started by the selections all settle the same way
ChatBound == Len(chat'.messages) <= 1 + 2 * MaxSends

NextChat ==
    \/ \E i \in Ids : selectWithChat(i) /\ ExplBound /\ UNCHANGED histVars
    \/ \E r \in BagToSet(explReqs) :
          primaryDone(r, Reply("")) /\ UNCHANGED <<svcVars, histVars>>
    \/ \E t \in Tabs : tabWithChat(t) /\ UNCHANGED histVars
    \/ \E text \in ChatInputs : setInput(text) /\ UNCHANGED histVars
    \/ handleSend /\ ChatBound /\ UNCHANGED histVars
    \/ \E o \in SendOutcomes : sendDone(o) /\ UNCHANGED histVars

SpecChat == Init /\ [][NextChat]_vars

\* ================================================================ claims

\* ---- C1 ----------------------------------------------------------------
\* C1 (as claimed): for every question id, two explanation fetches with
\* force=false go to the remote at most once in total, and the second
\* fetch displays the identical text that the first one put in the cache.
C1_TwoFetchesOneCall ==
    /\ \A i \in Ids : nfFetches[i] <= 2 => nfCalls[i] <= 1
    /\ (lastOp.op = "select" /\ nfFetches[lastOp.id] = 2
          /\ Truthy(cache[lastOp.id])) =>
          /\ lastOp.res = "hit"
          /\ explanation = Content(cache[lastOp.id])

\* C1 (amended): for every question id, a fetch with force=false made when
\* the cache holds the text an earlier fetch for that id put there issues
\* no remote call and displays that identical text, leaving the cache as it
\* is; only a fetch that misses the cache goes to the remote, once.
C1_CachedFetchNoCall ==
    [][ /\ \A i \in Ids :
             (lastOp'.op = "select" /\ lastOp'.id = i /\ Truthy(cache[i])) =>
                 /\ lastOp'.res = "hit"
                 /\ explReqs' = explReqs
                 /\ nfCalls' = nfCalls
                 /\ cache' = cache
                 /\ explanation' = Content(cache[i])
        /\ BagCardinality(explReqs') <= BagCardinality(explReqs) + 1
        /\ \A i \in Ids : IssuedFor(i) = 1 =>
              /\ lastOp'.op = "select" /\ lastOp'.id = i /\ ~Truthy(cache[i])
              /\ CopiesIn(Req(i, FALSE, "primary"), explReqs')
                    = CopiesIn(Req(i, FALSE, "primary"), explReqs) + 1
      ]_vars

\* the first fetch of a question succeeded with one remote call and the
\* second fetch was served from the cache
C1_Witness ==
    /\ lastOp.op = "select" /\ lastOp.res = "hit"
    /\ nfFetches[lastOp.id] = 2 /\ nfCalls[lastOp.id] = 1
    /\ Truthy(cache[lastOp.id])
    /\ explanation = Content(cache[lastOp.id])

\* ---- C2 ----------------------------------------------------------------
\* C2 (as claimed): the result of an explanation request for question A
\* that arrives after the user selected question B is never applied to
\* the displayed explanation state: whatever `explanation` shows was set
\* by a fetch for the currently selected question.
C2_StaleResultNeverApplied ==
    shownFor = NoId \/ shownFor = selectedId

\* ---- C3 ----------------------------------------------------------------
FetchOps == {"select", "regenerate"}
DoneOps  == {"primaryDone", "fallbackDone"}

\* a successful completion replaced the entry and displays the new text
SuccessStored ==
    (lastOp.op \in DoneOps /\ lastOp.res = "ok") =>
        /\ cache[lastOp.id] = lastOp.ret
        /\ explanation = Content(lastOp.ret)

\* C3 (as claimed): a fetch with force=true always issues a remote request,
\* and when it succeeds the entry is replaced by the new text, which is
\* displayed.
C3_ForcedAlwaysCalls ==
    /\ lastOp.op = "regenerate" => lastOp.res = "call"
    /\ SuccessStored

\* C3 (amended): a fetch with force=true is never served from the cache:
\* it issues a remote request whenever a credential is resolvable, also
\* when the cache holds an entry (with no credential it fails with the
\* missing-credential message and issues none); when it succeeds the entry
\* is replaced by the new text, which is displayed.
C3_ForcedBypassesCache ==
    /\ lastOp.op = "regenerate" =>
          /\ lastOp.force /\ lastOp.id = selectedId
          /\ lastOp.res = (IF HasKey THEN "call" ELSE "nokey")
          /\ lastOp.res = "call" =>
                /\ BagIn(Req(lastOp.id, TRUE, "primary"), explReqs)
                /\ explanation = Loading
          /\ lastOp.res = "nokey" => explanation = Failed(MsgNoKeyExplain)
    /\ SuccessStored

\* a forced refresh succeeded and replaced a different cached text
C3_Witness ==
    /\ lastOp.op \in DoneOps /\ lastOp.res = "ok" /\ lastOp.force
    /\ Truthy(lastOp.old) /\ lastOp.old # cache[lastOp.id]
    /\ explanation = Content(cache[lastOp.id])

\* ---- C4 ----------------------------------------------------------------
\* the chain of calls: primary first, the fallback once and only in
\* exchange for a failed primary call; the fallback issues nothing more
ChainOrder ==
    /\ \A r \in BagToSet(explReqs') :
          CopiesIn(r, explReqs') > CopiesIn(r, explReqs) =>
             IF r.stage = "primary"
             THEN lastOp'.op \in FetchOps /\ lastOp'.res = "call"
                  /\ lastOp'.id = r.id
             ELSE /\ lastOp'.op = "primaryDone" /\ lastOp'.res = "retry"
                  /\ lastOp'.id = r.id
                  /\ CopiesIn(Req(r.id, r.force, "primary"), explReqs')
                       = CopiesIn(Req(r.id, r.force, "primary"), explReqs) - 1
    /\ lastOp'.op = "fallbackDone" =>
          BagCardinality(explReqs') = BagCardinality(explReqs) - 1
    /\ BagCardinality(explReqs') <= BagCardinality(explReqs) + 1

\* the fallback succeeded: its text is cached and displayed
FallbackScenario ==
    (lastOp'.op = "fallbackDone" /\ lastOp'.res = "ok") =>
        /\ cache'[lastOp'.id] = lastOp'.ret
        /\ explanation' = Content(lastOp'.ret)

\* an error shown to the user was raised by the operation just performed
ErrorShownIsRaised ==
    (explanation'.error # Null /\ explanation' # explanation) =>
        lastOp'.msg = explanation'.error

\* C4 (as claimed): primary first, fallback once and only after the primary
\* failed, and an error is raised to the caller only when the fallback
\* call also failed.
C4_ErrorOnlyAfterFallback ==
    [][ /\ ChainOrder
        /\ FallbackScenario
        /\ ErrorShownIsRaised
        /\ lastOp'.msg # Null =>
              lastOp'.op = "fallbackDone" /\ lastOp'.res = "err"
      ]_vars

\* C4 (amended): primary first, fallback once and only after the primary
\* failed; a primary failure is never surfaced by itself; an error is
\* raised to the caller only when the fallback call also failed, or when no
\* credential is resolvable at entry, before any call is made.  When the
\* primary fails and the fallback returns text T, the fetch ends with
\* cache[id] = T and explanation {loading:false, content:T, error:null}.
C4_FallbackChain ==
    [][ /\ ChainOrder
        /\ FallbackScenario
        /\ ErrorShownIsRaised
        /\ lastOp'.msg # Null =>
              \/ /\ lastOp'.op = "fallbackDone" /\ lastOp'.res = "err"
                 /\ explanation' = Failed(lastOp'.msg)
              \/ /\ lastOp'.op \in FetchOps /\ lastOp'.res = "nokey"
                 /\ ~HasKey /\ explReqs' = explReqs
                 /\ lastOp'.msg = MsgNoKeyExplain
      ]_vars

\* the primary failed and the fallback returned "T1"
C4_Witness ==
    /\ lastOp.op = "fallbackDone" /\ lastOp.res = "ok" /\ lastOp.ret = "T1"
    /\ cache[lastOp.id] = "T1"
    /\ explanation = [loading |-> FALSE, content |-> "T1", error |-> Null]

\* ---- C5 ---------------------------------------------------------------
FailureResults == {"retry", "err", "nokey", "empty", "fail", "nocandidates", "nodata"}

\* C5: a step in which an explanation or audio generation fails leaves both
\* caches as they were; the explanation cache changes only when a
\* generateExplanation call succeeds, and then only the entry of its id,
\* set to the returned text; the audio cache changes only when the speech
\* call succeeds, and then only the entry of its id, set to the payload.
C5_CachesWrittenOnlyOnSuccess ==
    [][/\ lastOp'.res \in FailureResults =>
             cache' = cache /\ audioCache' = audioCache
       /\ cache' # cache =>
             /\ lastOp'.op \in DoneOps /\ lastOp'.res = "ok"
             /\ Truthy(lastOp'.ret)
             /\ cache' = [cache EXCEPT ![lastOp'.id] = lastOp'.ret]
       /\ audioCache' # audioCache =>
             /\ lastOp'.op = "ttsDone" /\ lastOp'.res = "ok"
             /\ lastOp'.ret \in Payloads
             /\ audioCache' = [audioCache EXCEPT ![lastOp'.id] = lastOp'.ret]]_vars

\* a forced refresh of a cached id has failed and the entry is still there,
\* next to an audio entry
C5_Witness ==
    /\ lastOp.op = "fallbackDone" /\ lastOp.res = "err" /\ lastOp.force
    /\ cache[lastOp.id] \in Texts
    /\ explanation = Failed(lastOp.msg)
    /\ \E i \in Ids : audioCache[i] \in Payloads

\* ---- C6 ---------------------------------------------------------------
StaleAudioStep ==
    lastOp'.op = "scriptDone" /\ lastOp'.res \in {"empty", "fail"}

NoNewSpeechCall ==
    \A r \in BagToSet(audioReqs') :
        r.stage = "tts" => CopiesIn(r, audioReqs') <= CopiesIn(r, audioReqs)

\* C6 as stated: when the script call returns no text or fails, the
\* invocation ends with the generic connectivity message, no speech call is
\* outstanding for the id and the id's audio cache entry is unset.
C6_EmptyScriptIsConnectivity ==
    (lastOp.op = "scriptDone" /\ lastOp.res \in {"empty", "fail"}) =>
        /\ lastOp.msg = MsgConn
        /\ audioCache[lastOp.id] = Null
        /\ ~BagIn(AReq(lastOp.id, "tts"), audioReqs)

\* C6 (amended): when the script call returns no text or fails, the
\* invocation issues no speech call and leaves the audio cache as it was.
\* It raises the missing-credential message if no credential resolves at
\* that moment; otherwise an empty script gives the connectivity message
\* and a failed script call is classified by its own failure (403 ->
\* access-denied, no signal -> connectivity).
C6_EmptyScriptNoSpeech ==
    [][StaleAudioStep =>
          /\ NoNewSpeechCall
          /\ audioCache' = audioCache
          /\ BagCardinality(audioReqs') = BagCardinality(audioReqs) - 1
          /\ (lastOp'.msg = MsgNoKey) <=> ~HasKey
          /\ (HasKey /\ lastOp'.res = "empty") => lastOp'.msg = MsgConn
          /\ (HasKey /\ lastOp'.res = "fail" /\ lastOp'.err = {})
                => lastOp'.msg = MsgConn
          /\ (HasKey /\ lastOp'.res = "fail" /\ "403" \in lastOp'.err)
                => lastOp'.msg = Msg403]_vars

C6_Witness ==
    /\ lastOp.op = "scriptDone" /\ lastOp.res = "empty"
    /\ lastOp.msg = MsgConn
    /\ audioCache[lastOp.id] = Null
    /\ audioReqs = EmptyBag

\* ---- C7 ---------------------------------------------------------------
\* C7: an audio cache entry, once set, stays set, and a call of
\* generateAudioExplanation for an id whose entry is set returns that entry,
\* issues no remote call and leaves the cache alone, whatever the
\* credential state.
C7_CachedAudioReturned ==
    [][/\ \A i \in Ids : audioCache[i] # Null => audioCache'[i] # Null
       /\ (lastOp'.op = "audio" /\ audioCache[lastOp'.id] # Null) =>
             /\ lastOp'.res = "hit"
             /\ lastOp'.ret = audioCache[lastOp'.id]
             /\ audioReqs' = audioReqs
             /\ audioCache' = audioCache]_vars

C7_Witness ==
    /\ lastOp.op = "audio" /\ lastOp.res = "hit"
    /\ ~HasKey
    /\ lastOp.ret \in Payloads
    /\ lastOp.ret = audioCache[lastOp.id]
    /\ audioReqs = EmptyBag

\* ---- C8 ---------------------------------------------------------------
EntryOps == {"select", "regenerate", "quiz", "createChatSession", "video"}

NoCallIssued ==
    /\ explReqs' = explReqs /\ audioReqs' = audioReqs
    /\ quizReqs' = quizReqs /\ videoReqs' = videoReqs

\* C8: with no credential resolvable, a fetch that reaches
\* generateExplanation fails with its missing-credential message, generateQuiz
\* and createChatSession fail with theirs, getVideoRecommendations returns
\* the empty array without an error, and none of the four issues a call.
C8_NoCredentialNoCall ==
    [][(~HasKey /\ lastOp'.op \in EntryOps) =>
          /\ NoCallIssued
          /\ (lastOp'.op \in FetchOps /\ lastOp'.res # "hit") =>
                /\ lastOp'.res = "nokey"
                /\ lastOp'.msg = MsgNoKeyExplain
                /\ explanation' = Failed(MsgNoKeyExplain)
          /\ lastOp'.op = "quiz" =>
                lastOp'.res = "nokey" /\ lastOp'.msg = MsgNoKey
          /\ lastOp'.op = "createChatSession" =>
                lastOp'.res = "nokey" /\ lastOp'.msg = MsgNoKeyChat
          /\ lastOp'.op = "video" =>
                /\ lastOp'.res = "nokey" /\ lastOp'.msg = Null
                /\ lastOp'.ret = "[]" /\ videos' = "[]"]_vars

\* all four have been called without a credential
C8_Witness ==
    /\ ~HasKey
    /\ lastOp.op = "quiz" /\ lastOp.res = "nokey" /\ lastOp.msg = MsgNoKey
    /\ explanation = Failed(MsgNoKeyExplain)
    /\ selectedId # NoId /\ chatSession = NoId
    /\ videos = "[]" /\ ~videoLoading
    /\ explReqs = EmptyBag /\ quizReqs = EmptyBag /\ videoReqs = EmptyBag

\* ---- C9 ---------------------------------------------------------------
\* C9 as stated: whatever the remote call does, getVideoRecommendations
\* returns an array, the empty one when the call failed, its text did not
\* parse or no credential resolved; and the panel is not loading once no
\* video call is outstanding.
C9_VideosAlwaysSequence ==
    /\ (lastOp.op \in {"video", "videoDone"} /\ lastOp.res # "call") =>
          /\ lastOp.ret \in JsonArrays
          /\ lastOp.res \in {"nokey", "caught"} => lastOp.ret = "[]"
    /\ videos \in JsonArrays
    /\ videoReqs = EmptyBag => ~videoLoading

\* ---- C10 --------------------------------------------------------------
ClassMessages == {MsgNoKey, Msg403, Msg429, MsgConn}

\* C10: handleApiError gives every failure exactly one of four pairwise
\* distinct messages: the missing-credential one exactly when no credential
\* resolves when it classifies; otherwise the access-denied one exactly when
\* the failure carries a 403/permission signal; otherwise the rate-limit one
\* exactly when it carries a 429/quota signal; otherwise the connectivity one.
C10_ClassificationTotal ==
    lastOp.op = "handleApiError" =>
        /\ Cardinality(ClassMessages) = 4
        /\ lastOp.msg \in ClassMessages
        /\ (lastOp.msg = MsgNoKey) <=> ~HasKey
        /\ (lastOp.msg = Msg403) <=>
              (HasKey /\ lastOp.err \cap AccessSignals # {})
        /\ (lastOp.msg = Msg429) <=>
              (HasKey /\ lastOp.err \cap AccessSignals = {}
                      /\ lastOp.err \cap QuotaSignals # {})
        /\ (lastOp.msg = MsgConn) <=> (HasKey /\ lastOp.err \cap Signals = {})

\* a failure carrying both a 403 and a 429 signal was classified access-denied
C10_Witness ==
    /\ lastOp.op = "handleApiError"
    /\ {"403", "429"} \subseteq lastOp.err
    /\ HasKey
    /\ lastOp.msg = Msg403

\* ---- C11 --------------------------------------------------------------
\* C11 as stated: when the quiz response has no text or text that does not
\* parse, generateQuiz throws one of the classified errors and returns
\* nothing.
C11_QuizEmptyOrMalformedRaises ==
    (lastOp.op = "loadQuizDone" /\ lastOp.res \in {"empty", "malformed"}) =>
        lastOp.msg \in ClassMessages /\ lastOp.ret = Null

\* ---- C12 --------------------------------------------------------------
\* C12 as stated: the chat session App holds is absent or was created for
\* the selected question.
C12_ChatSessionForSelected ==
    chatSession = NoId \/ chatSession = selectedId

\* ---- C13 --------------------------------------------------------------
\* C13: a selection made while no credential resolves (createChatSession
\* throws) still sets the selected id, resets the tab to "explanation" and
\* the header flag, and runs the explanation fetch for the new id (served
\* from the cache, or failing with the missing-credential message); the
\* chat session is left as it was.
C13_SelectionSurvivesChatFailure ==
    [][(lastOp'.op = "select" /\ ~HasKey) =>
          /\ selectedId' = lastOp'.id
          /\ activeTab' = "explanation"
          /\ isHeaderExpanded' = FALSE
          /\ chatSession' = chatSession
          /\ shownFor' = lastOp'.id
          /\ IF Truthy(cache[lastOp'.id])
             THEN /\ lastOp'.res = "hit"
                  /\ explanation' = Content(cache[lastOp'.id])
             ELSE /\ lastOp'.res = "nokey"
                  /\ explanation' = Failed(MsgNoKeyExplain)]_vars

\* question 2 was selected after the credential had been cleared, while
\* the session of an earlier selection is still held
C13_Witness ==
    /\ lastOp.op = "select" /\ lastOp.res = "nokey" /\ ~HasKey
    /\ selectedId = lastOp.id /\ activeTab = "explanation"
    /\ chatSession # NoId /\ chatSession # selectedId
    /\ explanation = Failed(MsgNoKeyExplain)

\* ---- C14 --------------------------------------------------------------
\* C14: getStoredApiKey returns the stored value when one is present and
\* non-empty, otherwise the build-time default when that is non-empty,
\* otherwise the empty string; and right after saveApiKey stored a
\* non-empty value the resolver returns that value, whatever the default.
C14_ResolutionOrder ==
    [][/\ lastOp'.op = "getStoredApiKey" =>
              lastOp'.ret = IF userKey # Null /\ userKey # "" THEN userKey
                            ELSE IF envKey # "" THEN envKey ELSE ""
       /\ (lastOp'.op = "saveApiKey" /\ userKey' # "") =>
              getStoredApiKey' = userKey']_vars

\* a stored key was resolved while a different build-time default exists
C14_Witness ==
    /\ lastOp.op = "getStoredApiKey"
    /\ userKey = "k" /\ envKey = "e" /\ lastOp.ret = "k"

\* ---- C15 --------------------------------------------------------------
\* C15 as stated: what the resolver returns for a stored value is that
\* value trimmed, and a value that trims to nothing resolves like an
\* absent one (the default, or the empty string).
C15_TrimmedValueResolved ==
    (lastOp.op = "getStoredApiKey" /\ userKey # Null) =>
        lastOp.ret = IF Trim(userKey) # "" THEN Trim(userKey)
                     ELSE IF envKey # "" THEN envKey ELSE ""

\* ---- C16 --------------------------------------------------------------
\* C16: a toggle changes the membership of its id only, and a toggle that
\* follows a toggle of the same id on the same set restores the membership
\* the set had before the first of the two.
C16_ToggleTwiceRestores ==
    [][/\ lastOp'.op = "toggleComplete" =>
            /\ \A j \in Ids \ {lastOp'.id} :
                  (j \in Range(completedIds')) = (j \in Range(completedIds))
            /\ (lastOp'.id \in Range(completedIds'))
                  = (lastOp'.id \notin Range(completedIds))
            /\ bookmarkedIds' = bookmarkedIds
            /\ (lastOp.op = "toggleComplete" /\ lastOp.id = lastOp'.id) =>
                  Range(completedIds') = Range(lastToggle.before)
       /\ lastOp'.op = "toggleBookmark" =>
            /\ \A j \in Ids \ {lastOp'.id} :
                  (j \in Range(bookmarkedIds')) = (j \in Range(bookmarkedIds))
            /\ (lastOp'.id \in Range(bookmarkedIds'))
                  = (lastOp'.id \notin Range(bookmarkedIds))
            /\ completedIds' = completedIds
            /\ (lastOp.op = "toggleBookmark" /\ lastOp.id = lastOp'.id) =>
                  Range(bookmarkedIds') = Range(lastToggle.before)]_vars

\* id 1 was toggled off and on again in an array that also holds id 2:
\* the members are back, in another order
C16_Witness ==
    /\ lastOp.op = "toggleComplete" /\ lastOp.id = 1
    /\ lastToggle.again /\ lastToggle.first = <<1, 2>>
    /\ lastToggle.before = <<2>>
    /\ completedIds = <<2, 1>>

\* ---- C17 --------------------------------------------------------------
\* C17: after every step the stored 'completed' and 'bookmarked' arrays are
\* the in-memory ones, and a restart starts the in-memory arrays from
\* exactly what was stored.
C17_PersistedOnEveryChange ==
    [][/\ storedCompleted' = JSONStringify(completedIds')
       /\ storedBookmarked' = JSONStringify(bookmarkedIds')
       /\ lastOp'.op = "restart" =>
            /\ JSONStringify(completedIds') = storedCompleted
            /\ JSONStringify(bookmarkedIds') = storedBookmarked]_vars

\* the page was reloaded with ids stored in both arrays
C17_Witness ==
    /\ lastOp.op = "restart"
    /\ completedIds = <<2, 1>> /\ bookmarkedIds = <<1>>
    /\ storedCompleted = JSONStringify(<<2, 1>>)

\* ---- C18 --------------------------------------------------------------
\* C18 as stated: processAudioData never throws, and for a payload of L
\* bytes it returns a buffer of floor(L/2) frames, one channel, 24000 Hz.
C18_DecoderNeverRaises ==
    decoded.calls > 0 =>
        /\ ~decoded.raised
        /\ Len(decoded.samples) = Len(decoded.bytes) \div 2
        /\ decoded.channels = 1
        /\ decoded.sampleRate = 24000

\* ---- C19 --------------------------------------------------------------
\* C19: in a returned buffer, sample i is n/32768 where n is the signed
\* 16-bit number whose low byte is byte 2i and whose high byte is byte
\* 2i+1; n lies in -32768..32767, so the sample lies in [-1, 1); and a
\* second decoding of the same payload gives the samples of the first.
C19_SampleValues ==
    (decoded.calls > 0 /\ ~decoded.raised) =>
        /\ \A n \in DOMAIN decoded.samples :
              LET lo == decoded.bytes[2 * n - 1]
                  hi == decoded.bytes[2 * n]
                  x  == decoded.samples[n]
              IN  /\ x.den = 32768
                  /\ x.num = (IF hi >= 128 THEN hi - 256 ELSE hi) * 256 + lo
                  /\ x.num \in -32768..32767
                  /\ -x.den <= x.num /\ x.num < x.den
        /\ decoded.calls > 1 => decoded.samples = decoded.first

\* three bytes 00 80 3F were decoded twice: one sample, -32768/32768
C19_Witness ==
    /\ decoded.calls = 2 /\ ~decoded.raised
    /\ decoded.bytes = <<0, 128, 63>>
    /\ decoded.samples = <<[num |-> -32768, den |-> 32768]>>
    /\ decoded.first = decoded.samples

\* ---- C20 --------------------------------------------------------------
\* C20 as stated: in every state, a loading explanation has neither content
\* nor error, and one that is not loading has exactly one of the two.
C20_ExactlyOneWhenNotLoading ==
    /\ explanation.loading =>
          explanation.content = Null /\ explanation.error = Null
    /\ ~explanation.loading =>
          (explanation.content # Null) # (explanation.error # Null)

\* C20 amended: that holds from the first selection on; until a question
\* has been selected the explanation is the initial one, not loading and
\* with neither content nor error.
C20_TriStateOnceSelected ==
    IF selectedId = NoId
    THEN explanation = [loading |-> FALSE, content |-> Null, error |-> Null]
    ELSE /\ explanation.loading =>
               explanation.content = Null /\ explanation.error = Null
         /\ ~explanation.loading =>
               (explanation.content # Null) # (explanation.error # Null)

\* a fetch for the selected question has ended in an error
C20_Witness ==
    /\ selectedId # NoId /\ lastOp.op = "fallbackDone"
    /\ ~explanation.loading
    /\ explanation.content = Null /\ explanation.error = Msg403

\* ---- C21 --------------------------------------------------------------
\* C21 as stated: at most one playback source is active at any time.
C21_AtMostOneSource ==
    Cardinality(player.active) <= 1

\* ---- C24 --------------------------------------------------------------
\* C24 as stated: the buffer the player keeps and every source that sounds
\* belong to the question on screen.
C24_BufferOfShownQuestion ==
    /\ player.audioBufferRef \in {NoId, selectedId}
    /\ \A src \in player.active : src.id = selectedId

\* ---- C25 --------------------------------------------------------------
\* C25 as stated: while a source is active, isPlaying is true and the ref
\* names an active source.
C25_ActiveSourceTracked ==
    player.active # {} =>
        player.isPlaying /\ player.sourceNodeRef \in player.active

\* ---- C22 --------------------------------------------------------------
\* C22 as stated: when a credential is saved while the explanation panel
\* shows an access-denied or missing-credential error, that step itself
\* starts the failed fetch again: the panel goes to loading and a remote
\* call for the selected question is issued.
C22_SaveRetriesFailedFetch ==
    [][(/\ lastOp'.op = "saveApiKey" /\ userKey' # ""
        /\ selectedId # NoId
        /\ explanation.error \in {Msg403, MsgNoKey, MsgNoKeyExplain})
       => /\ explanation' = Loading
          /\ \E r \in BagToSet(explReqs') :
                r.id = selectedId /\ r.stage = "primary"]_vars

\* ---- C23 --------------------------------------------------------------
\* C23: a fetch (or audio generation) for an id misses the cache and issues
\* its remote call also while another call for the same id is outstanding;
\* each call that succeeds writes its own result over whatever the entry
\* holds, so the entry holds the result of the call that completed last;
\* no step changes the entry of another id.
C23_OverlapLastWriteWins ==
    [][/\ (lastOp'.op = "select" /\ ~Truthy(cache[lastOp'.id]) /\ HasKey) =>
             /\ lastOp'.res = "call"
             /\ CopiesIn(Req(lastOp'.id, FALSE, "primary"), explReqs')
                  = CopiesIn(Req(lastOp'.id, FALSE, "primary"), explReqs) + 1
       /\ (lastOp'.op = "audio" /\ audioCache[lastOp'.id] = Null /\ HasKey) =>
             /\ lastOp'.res = "call"
             /\ CopiesIn(AReq(lastOp'.id, "script"), audioReqs')
                  = CopiesIn(AReq(lastOp'.id, "script"), audioReqs) + 1
       /\ (lastOp'.op \in DoneOps /\ lastOp'.res = "ok") =>
             cache'[lastOp'.id] = lastOp'.ret
       /\ (lastOp'.op = "ttsDone" /\ lastOp'.res = "ok") =>
             audioCache'[lastOp'.id] = lastOp'.ret
       /\ \A j \in Ids \ {lastOp'.id} :
             cache'[j] = cache[j] /\ audioCache'[j] = audioCache[j]]_vars

\* the second of two overlapping unforced fetches of one id has completed
\* and replaced the text the first one stored by its own
C23_Witness ==
    /\ lastOp.op \in DoneOps /\ lastOp.res = "ok" /\ ~lastOp.force
    /\ Truthy(lastOp.old) /\ lastOp.old # lastOp.ret
    /\ cache[lastOp.id] = lastOp.ret

\* ---- C27 --------------------------------------------------------------
\* C27: an explanation call that succeeds leaves a non-empty entry for its
\* id, also while calls for other ids are outstanding, and no step empties
\* an entry: once both of two overlapping fetches have succeeded both
\* entries are there, in either order of completion.
C27_NoLostEntries ==
    [][/\ (lastOp'.op \in DoneOps /\ lastOp'.res = "ok") =>
             Truthy(cache'[lastOp'.id])
       /\ \A j \in Ids : Truthy(cache[j]) => Truthy(cache'[j])]_vars

\* two calls were issued, for question 2 and then, while that one was
\* outstanding, for question 1; the call for 2 is the last to complete and
\* both entries are held
C27_Witness ==
    /\ lastOp.op \in DoneOps /\ lastOp.res = "ok" /\ lastOp.id = 2
    /\ selectedId = 1 /\ started = 2
    /\ Truthy(cache[1]) /\ Truthy(cache[2])
    /\ explReqs = EmptyBag

\* ---- C26 --------------------------------------------------------------
\* C26: when the primary or the fallback call settles with an empty text,
\* the step is a success: generateExplanation returns the placeholder, a
\* non-empty string, no further call is issued, and fetchExplanation caches
\* the placeholder and displays it as content with no error.
C26_EmptyReplyIsPlaceholder ==
    [][\A r \in BagToSet(explReqs) :
          (primaryDone(r, Reply("")) \/ fallbackDone(r, Reply(""))) =>
              /\ lastOp'.res = "ok" /\ lastOp'.ret = Placeholder
              /\ Placeholder # ""
              /\ BagCardinality(explReqs') = BagCardinality(explReqs) - 1
              /\ cache'[r.id] = Placeholder
              /\ explanation' = [loading |-> FALSE, content |-> Placeholder,
                                 error |-> Null]]_vars

\* the primary call came back with no text and the placeholder is shown
C26_Witness ==
    /\ lastOp.op = "primaryDone" /\ lastOp.ret = Placeholder
    /\ cache[lastOp.id] = Placeholder
    /\ explanation = Content(Placeholder)
    /\ explReqs = EmptyBag

\* ---- C28 --------------------------------------------------------------
\* C28: provided every remote call settles, a loading explanation is
\* always followed by one that is not loading.
C28_LoadingEnds ==
    explanation.loading ~> ~explanation.loading

\* the fallback call of one fetch has settled and ended the loading state
\* while the call of an overlapping fetch is still outstanding
C28_Witness ==
    /\ lastOp.op = "fallbackDone" /\ ~explanation.loading
    /\ explReqs # EmptyBag

\* ---- C29 --------------------------------------------------------------
\* C29: the score goes up by one only in a check whose selected option is
\* the item's correct index, and each item is checked at most once, so
\* 0 <= score <= checked items <= items; with items loaded the index is one
\* of theirs; the results are shown only once the last item has been
\* checked; and a (re)load puts index, score, selection, answered and
\* results back to their initial values.
C29_QuizRun ==
    [][LET items  == QuizItems(quiz.questions)
           items2 == QuizItems(quiz'.questions)
       IN  /\ 0 <= quiz'.score /\ quiz'.score <= quiz'.checked
           /\ quiz'.checked <= Len(items2) \/ items2 = <<>>
           /\ quiz'.checked
                = quiz'.currentIndex + (IF quiz'.isAnswered THEN 1 ELSE 0)
           /\ items2 # <<>> => quiz'.currentIndex \in 0..(Len(items2) - 1)
           /\ items2 = <<>> => quiz'.checked = 0
           /\ quiz'.showResults =>
                 /\ items2 # <<>> /\ quiz'.checked = Len(items2)
                 /\ quiz'.currentIndex = Len(items2) - 1
           /\ quiz'.score # quiz.score =>
                 \/ /\ lastOp'.op = "handleCheck"
                    /\ quiz'.score = quiz.score + 1
                    /\ quiz.selectedOption = items[quiz.currentIndex + 1]
                 \/ lastOp'.op = "loadQuiz" /\ quiz'.score = 0
           /\ lastOp'.op = "loadQuiz" =>
                 /\ quiz'.currentIndex = 0 /\ quiz'.score = 0
                 /\ quiz'.selectedOption = NoOption
                 /\ ~quiz'.isAnswered /\ ~quiz'.showResults]_vars

\* a run of three items has ended on the results screen with two of them
\* right
C29_Witness ==
    /\ quiz.showResults /\ quiz.checked = 3 /\ quiz.score = 2
    /\ quiz.currentIndex = 2

\* ---- C30 --------------------------------------------------------------
\* C30: a send with blank input or without a chat session changes nothing;
\* an accepted send appends the user message (the input as typed), clears
\* the input and sets loading; when its call settles exactly one model
\* message is appended right after that user message (the reply, "..." for
\* an empty reply, or the fixed error text) and loading is false; so the
\* list is the greeting followed by user / model pairs, the last one open
\* exactly while a send is awaited; and whenever the chat session changes
\* the list is the single greeting.
C30_ChatSend ==
    [][/\ lastOp'.op = "handleSend" =>
             IF Trim(chat.input) = "" \/ chatSession = NoId
             THEN chat' = chat
             ELSE /\ chat'.messages
                        = Append(chat.messages, UserMessage(chat.input))
                  /\ chat'.input = "" /\ chat'.loading
       /\ lastOp'.op = "sendDone" =>
             /\ Len(chat'.messages) = Len(chat.messages) + 1
             /\ SubSeq(chat'.messages, 1, Len(chat.messages)) = chat.messages
             /\ chat.messages[Len(chat.messages)].role = "user"
             /\ chat'.messages[Len(chat'.messages)].role = "model"
             /\ chat'.messages[Len(chat'.messages)].text
                   \in (Texts \cup {Ellipsis, MsgChatError})
             /\ ~chat'.loading
       /\ chat'.messages[1] = Greeting
       /\ \A n \in 2..Len(chat'.messages) :
             chat'.messages[n].role = (IF n % 2 = 0 THEN "user" ELSE "model")
       /\ chat'.loading <=> Len(chat'.messages) % 2 = 0
       /\ chatSession' # chatSession => chat'.messages = <<Greeting>>]_vars

\* two sends have been answered, one with the reply and one with the error
\* text, and a blank send has just been turned down
C30_Witness ==
    /\ Len(chat.messages) = 5 /\ ~chat.loading
    /\ chat.messages[2] = UserMessage("why")
    /\ chat.messages[3].text \in Texts
    /\ chat.messages[5] = ModelMessage(MsgChatError)
    /\ lastOp.op = "handleSend" /\ lastOp.res = "noop"
    /\ chatSession # NoId /\ Trim(chat.input) = ""
====
